---- MODULE Spec2Model ----
(***************************************************************************)
(* A model of the CSS tokenizer, syntax parser and CSS stylesheet layer of *)
(* src/src/index.ts.  Text is a sequence of one-character strings; the     *)
(* cursor fields keep the 0-based indices of the source.                   *)
(***************************************************************************)
EXTENDS Integers, Sequences, FiniteSets, TLC

VARIABLES
    text,                      \* Tokenizer.text
    nextInputCodePointIndex,   \* Tokenizer.nextInputCodePointIndex
    prevInputCodePointIndex,   \* Tokenizer.prevInputCodePointIndex
    tokens,                    \* the tokens array that tokenize() fills
    spans,                     \* per token of tokens: <<prev, next>> at the time it was returned
    pc,                        \* position of the running operation
    stylesheet,                \* rules of the last parseAStylesheet / parseACSSStylesheet
    raised,                    \* message of the error the last operation raised, or "none"
    atRuleParsers,             \* CSSParser.atRuleParsers (own properties)
    added,                     \* log of addAtRuleParser calls, oldest first
    calls,                     \* log of handler invocations of the last parseACSSStylesheet
    consumeATokenFn,           \* the function installed as this.consumeAToken
    startFn,                   \* the function installed as this.start
    endFn,                     \* the function installed as this.end
    frames,                    \* the active with() calls: each one's stackedConsumeAToken local
    active,                    \* what each active with() was given and how much of it was read
    lastToken,                 \* what the last consumeAToken call on the parser returned
    lastCall,                  \* the last call made on the parser inside or around with()
    topLevelFlag,              \* Parser.topLevelFlag (undefined counts as FALSE)
    line,                      \* Tokenizer.line
    lineStartIndex,            \* Tokenizer.lineStartIndex
    lineEndIndex,              \* Tokenizer.lineEndIndex
    history                    \* the public calls made on the instance so far, oldest first

vars == <<text, nextInputCodePointIndex, prevInputCodePointIndex, tokens, spans, pc,
          stylesheet, raised, atRuleParsers, added, calls, consumeATokenFn, startFn,
          endFn, frames, active, lastToken, lastCall, topLevelFlag, line, lineStartIndex,
          lineEndIndex, history>>

\* the line bookkeeping fields
lineFields == <<line, lineStartIndex, lineEndIndex>>

-----------------------------------------------------------------------------
(* Characters and JavaScript string helpers *)

EOF == "undefined"   \* text[i] for an index outside the text

charAt(t, i) == IF i >= 0 /\ i < Len(t) THEN t[i + 1] ELSE EOF

Min(a, b) == IF a < b THEN a ELSE b
Max(a, b) == IF a > b THEN a ELSE b

\* String.prototype.substring(a, b): indices clamped to the text, swapped when a > b
substring(t, a, b) ==
    LET ca == Max(0, Min(a, Len(t)))
        cb == Max(0, Min(b, Len(t)))
    IN  SubSeq(t, Min(ca, cb) + 1, Max(ca, cb))

\* String.prototype.substr(a, n): n characters from index a
substr(t, a, n) == SubSeq(t, Min(a, Len(t)) + 1, Min(Len(t), a + Max(n, 0)))

Digits == {"0", "1", "2", "3", "4", "5", "6", "7", "8", "9"}
LowerHex == <<"0", "1", "2", "3", "4", "5", "6", "7", "8", "9", "a", "b", "c", "d", "e", "f">>
UpperHex == <<"0", "1", "2", "3", "4", "5", "6", "7", "8", "9", "A", "B", "C", "D", "E", "F">>
LowerLetters == <<"a", "b", "c", "d", "e", "f", "g", "h", "i", "j", "k", "l", "m",
                  "n", "o", "p", "q", "r", "s", "t", "u", "v", "w", "x", "y", "z">>
UpperLetters == <<"A", "B", "C", "D", "E", "F", "G", "H", "I", "J", "K", "L", "M",
                  "N", "O", "P", "Q", "R", "S", "T", "U", "V", "W", "X", "Y", "Z">>
Letters == {LowerLetters[i] : i \in 1..26} \cup {UpperLetters[i] : i \in 1..26}

\* The printable ASCII characters, code 32 first (code 96 is written GRAVE)
Ascii == <<" ", "!", "\"", "#", "$", "%", "&", "'", "(", ")", "*", "+", ",", "-", ".", "/",
           "0", "1", "2", "3", "4", "5", "6", "7", "8", "9", ":", ";", "<", "=", ">", "?",
           "@", "A", "B", "C", "D", "E", "F", "G", "H", "I", "J", "K", "L", "M", "N", "O",
           "P", "Q", "R", "S", "T", "U", "V", "W", "X", "Y", "Z", "[", "\\", "]", "^", "_",
           "GRAVE", "a", "b", "c", "d", "e", "f", "g", "h", "i", "j", "k", "l", "m", "n", "o",
           "p", "q", "r", "s", "t", "u", "v", "w", "x", "y", "z", "{", "|", "}", "~">>

\* String.fromCharCode(code): the code is taken modulo 2^16
fromCharCode(code) ==
    LET c == code % 65536
    IN  IF c \in 32..126 THEN Ascii[c - 31]
        ELSE IF c = 9 THEN "\t"
        ELSE IF c = 10 THEN "\n"
        ELSE IF c = 12 THEN "\f"
        ELSE IF c = 13 THEN "\r"
        ELSE "U+" \o ToString(c)

AsciiChars == {fromCharCode(c) : c \in 0..127}

\* [^\x00-\x7F]
isNonAscii(c) == c /= EOF /\ c \notin AsciiChars

\* isHex(char)
isHex(c) == \E i \in 1..16 : c = LowerHex[i] \/ c = UpperHex[i]

hexDigitValue(c) == (CHOOSE i \in 1..16 : c = LowerHex[i] \/ c = UpperHex[i]) - 1

RECURSIVE hexValue(_)
\* the number a run of hex digits denotes
hexValue(s) ==
    IF s = <<>> THEN 0
    ELSE 16 * hexValue(SubSeq(s, 1, Len(s) - 1)) + hexDigitValue(s[Len(s)])

RECURSIVE hexPrefixLength(_, _)
\* how many leading characters of s, from index k (1-based), are hex digits
hexPrefixLength(s, k) ==
    IF k <= Len(s) /\ isHex(s[k]) THEN 1 + hexPrefixLength(s, k + 1) ELSE 0

\* parseInt("0x" + s, 16): the longest prefix of hex digits of s
parseIntHex(s) == hexValue(SubSeq(s, 1, hexPrefixLength(s, 1)))

\* \s of the regular expressions, also what String.prototype.trim strips: the white
\* space and line terminator code points 9-13, 32, U+00A0, U+1680, U+2000-U+200A,
\* U+2028, U+2029, U+202F, U+205F, U+3000 and U+FEFF
RegexSpace ==
    {fromCharCode(c) : c \in (9..13) \cup {32, 160, 5760} \cup (8192..8202)
                                \cup {8232, 8233, 8239, 8287, 12288, 65279}}

\* the line terminators \n, \r, U+2028 and U+2029: a multiline $ matches before
\* them and . does not match them
LineTerminators == {fromCharCode(c) : c \in {10, 13, 8232, 8233}}

toLowerCase(s) ==
    [k \in 1..Len(s) |->
        IF \E i \in 1..26 : s[k] = UpperLetters[i]
        THEN LowerLetters[CHOOSE i \in 1..26 : s[k] = UpperLetters[i]]
        ELSE s[k]]

RECURSIVE trimStart(_)
trimStart(s) == IF s /= <<>> /\ s[1] \in RegexSpace THEN trimStart(Tail(s)) ELSE s

RECURSIVE trimEnd(_)
trimEnd(s) ==
    IF s /= <<>> /\ s[Len(s)] \in RegexSpace THEN trimEnd(SubSeq(s, 1, Len(s) - 1)) ELSE s

\* String.prototype.trim
trim(s) == trimEnd(trimStart(s))

-----------------------------------------------------------------------------
(* Tokens *)

Undefined == [type |-> "undefined"]   \* <EOF-token>, and an array read past its end
Null == [type |-> "null"]             \* what a consumer returns when it gives up
Throw(msg) == [type |-> "throw", message |-> msg]

\* v === undefined for a field that holds a number once it is assigned; values of
\* different kinds have no equality in the model checker, so the test is on the
\* printed form
isUndefined(v) == ToString(v) = ToString(Undefined)

\* a JavaScript value used as a loop or if condition
Truthy(tok) == tok.type \notin {"undefined", "null", "throw"}
Thrown(tok) == tok.type = "throw"

\* SimpleTokens: a token that is a JavaScript string
Simple(s) == [type |-> "simple", source |-> s]
Whitespace == Simple(<<" ">>)
isSimple(tok, s) == tok.type = "simple" /\ tok.source = s
isWhitespaceToken(tok) == isSimple(tok, <<" ">>)

\* source of { type: delim, source: text[i] } when i is outside the text
UndefinedSource == <<EOF>>

Result(tok, n) == [token |-> tok, next |-> n]

\* endianTokenMap
endianTokenMap(associatedToken) ==
    CASE associatedToken = <<"[">> -> <<"]">>
      [] associatedToken = <<"{">> -> <<"}">>
      [] associatedToken = <<"(">> -> <<")">>

RECURSIVE join(_)
\* Array.prototype.join(""): an undefined element counts as the empty string
join(strings) ==
    IF strings = <<>> THEN <<>>
    ELSE (IF Head(strings) = UndefinedSource THEN <<>> ELSE Head(strings)) \o join(Tail(strings))

RECURSIVE toString(_)
\* toString(token)
toString(token) ==
    CASE token.type = "simple" -> token.source
      [] token.type = "functionObject" ->
            token.name \o <<"(">>
                \o join([k \in 1..Len(token.components) |-> toString(token.components[k])])
                \o <<")">>
      [] token.type = "simpleBlock" ->
            token.associatedToken
                \o join([k \in 1..Len(token.values) |-> toString(token.values[k])])
                \o endianTokenMap(token.associatedToken)
      [] OTHER -> token.source


-----------------------------------------------------------------------------
(* The regular expressions of the tokenizer, matched at a given index (sticky) *)

\* the value of a one-element set: Let({e : x \in {v}}) is e with x standing for v
Let(S) == CHOOSE v \in S : TRUE

HexChars == {LowerHex[i] : i \in 1..16} \cup {UpperHex[i] : i \in 1..16}

RECURSIVE runEnd(_, _, _, _)
\* the index after the run of characters of S that starts at p and stays below lim
runEnd(t, p, lim, S) ==
    IF p < lim /\ charAt(t, p) \in S THEN runEnd(t, p + 1, lim, S) ELSE p

NoMatch == -1

\* whitespaceRegEx without its star: one whitespace character at most
whitespaceRegExOneChar(t, p) == IF charAt(t, p) \in RegexSpace THEN p + 1 ELSE p

\* whitespaceRegEx: always matches, possibly the empty string; the new lastIndex
whitespaceRegEx(t, p) == runEnd(t, p, Len(t), RegexSpace)

RECURSIVE commentBody(_, _)
\* (?:[^\*]|\*[^\/])*\*\/ from p; the new lastIndex or NoMatch
commentBody(t, p) ==
    IF charAt(t, p) = EOF THEN NoMatch
    ELSE IF charAt(t, p) /= "*" THEN commentBody(t, p + 1)
    ELSE IF charAt(t, p + 1) = "/" THEN p + 2
    ELSE IF charAt(t, p + 1) = EOF THEN NoMatch
    ELSE commentBody(t, p + 2)

\* commentRegEx at p
commentRegEx(t, p) ==
    IF charAt(t, p) = "/" /\ charAt(t, p + 1) = "*" THEN commentBody(t, p + 2) ELSE NoMatch

\* (?:\d+\.\d+|\d+|\.\d+) at q, d1 the end of the digits at q; the index after it
numberDigits(t, q, d1) ==
    IF d1 > q
    THEN IF charAt(t, d1) = "." /\ charAt(t, d1 + 1) \in Digits
         THEN runEnd(t, d1 + 1, Len(t), Digits)
         ELSE d1
    ELSE IF charAt(t, q) = "." /\ charAt(t, q + 1) \in Digits
         THEN runEnd(t, q + 1, Len(t), Digits)
         ELSE NoMatch

\* a number grammar without the exponent part
numberWithoutExponent(t, m, s) == m

\* (?:[eE][\+\-]?\d+)? at m, s the index after the sign; the index after it
numberExponent(t, m, s) ==
    IF m = NoMatch THEN NoMatch
    ELSE IF charAt(t, m) \in {"e", "E"} /\ charAt(t, s) \in Digits
    THEN runEnd(t, s, Len(t), Digits)
    ELSE m

\* numberRegEx at p
numberRegEx(t, p) ==
    Let({ Let({ numberExponent(t, m, IF charAt(t, m + 1) \in {"+", "-"} THEN m + 2 ELSE m + 1)
                : m \in {numberDigits(t, q, runEnd(t, q, Len(t), Digits))} })
          : q \in {IF charAt(t, p) \in {"+", "-"} THEN p + 1 ELSE p} })

\* \\(?:\$|\n|[0-9a-fA-F]{1,6}\s?) at p, taken greedily; the index after it or NoMatch
nameEscape(t, p) ==
    IF charAt(t, p) /= "\\" THEN NoMatch
    ELSE IF charAt(t, p + 1) \in {"$", "\n"} THEN p + 2
    ELSE IF isHex(charAt(t, p + 1))
    THEN Let({ IF charAt(t, e) \in RegexSpace THEN e + 1 ELSE e
               : e \in {runEnd(t, p + 1, Min(Len(t), p + 7), HexChars)} })
    ELSE NoMatch

isNameStart(c) == c \in Letters \/ c = "_" \/ isNonAscii(c)
isNameChar(c) == c \in Letters \/ c \in Digits \/ c \in {"_", "-"} \/ isNonAscii(c)

RECURSIVE nameRest(_, _)
\* (?:(?:[a-zA-Z_0-9\-]|[^\x00-\x7F])*|escape)* from p
nameRest(t, p) ==
    IF isNameChar(charAt(t, p)) THEN nameRest(t, p + 1)
    ELSE Let({ IF e /= NoMatch THEN nameRest(t, e) ELSE p : e \in {nameEscape(t, p)} })

\* (?:[a-zA-Z_]|[^\x00-\x7F]|escape) at q; the index after it or NoMatch
nameStart(t, q) == IF isNameStart(charAt(t, q)) THEN q + 1 ELSE nameEscape(t, q)

\* nameRegEx at p
nameRegEx(t, p) ==
    Let({ IF e = NoMatch THEN NoMatch ELSE nameRest(t, e)
          : e \in {nameStart(t, IF charAt(t, p) = "-" THEN p + 1 ELSE p)} })

\* the ends of one item of a string body at p, in the order the matcher tries them:
\* [^\n\r\f\\Q] | \\(?:\$|\n|[0-9a-fA-F]{1,6}\s?|Q), Q the quote; to each hex run,
\* from the longest (maxh digits) to the shortest, first with then without \s
stringItemEnds(t, p, Q) ==
    IF charAt(t, p) = EOF THEN <<>>
    ELSE IF charAt(t, p) \notin {"\n", "\r", "\f", "\\", Q} THEN <<p + 1>>
    ELSE IF charAt(t, p) /= "\\" THEN <<>>
    ELSE IF charAt(t, p + 1) \in {"$", "\n", Q} THEN <<p + 2>>
    ELSE IF isHex(charAt(t, p + 1))
    THEN Let({ SelectSeq([k \in 1..(2 * maxh) |-> p + 1 + (k % 2) + maxh - ((k - 1) \div 2)],
                         LAMBDA e : \E h \in 1..maxh :
                             \/ e = p + 1 + h
                             \/ e = p + 2 + h /\ charAt(t, p + 1 + h) \in RegexSpace)
               : maxh \in {runEnd(t, p + 1, Min(Len(t), p + 7), HexChars) - (p + 1)} })
    ELSE <<>>

RECURSIVE stringBody(_, _, _)
RECURSIVE stringTry(_, _, _, _, _)
\* the body star and the terminator (?:Q|$) from p: [last, bodyEnd], last = NoMatch if none
stringBody(t, p, Q) == stringTry(t, stringItemEnds(t, p, Q), 1, p, Q)

stringTry(t, ends, k, p, Q) ==
    IF k <= Len(ends)
    THEN Let({ IF r.last /= NoMatch THEN r ELSE stringTry(t, ends, k + 1, p, Q)
               : r \in {stringBody(t, ends[k], Q)} })
    ELSE IF charAt(t, p) = Q THEN [last |-> p + 1, bodyEnd |-> p]
    ELSE IF p >= Len(t) \/ charAt(t, p) \in LineTerminators THEN [last |-> p, bodyEnd |-> p]
    ELSE [last |-> NoMatch, bodyEnd |-> NoMatch]

\* singleQuoteStringRegEx / doubleQuoteStringRegEx at p, Q the quote at p
quoteStringRegEx(t, p, Q) == stringBody(t, p + 1, Q)

RECURSIVE escapeFrom(_, _)
\* Tokenizer.stringEscapeRegex replaced through s from the 1-based index k
escapeFrom(s, k) ==
    IF k > Len(s) THEN <<>>
    ELSE IF s[k] /= "\\" \/ k = Len(s) THEN <<s[k]>> \o escapeFrom(s, k + 1)
    ELSE IF isHex(s[k + 1])
    THEN Let({ <<fromCharCode(hexValue(SubSeq(s, k + 1, e - 1)))>>
                   \o escapeFrom(s, IF e <= Len(s) /\ s[e] \in RegexSpace THEN e + 1 ELSE e)
               : e \in {k + 1 + Min(6, hexPrefixLength(s, k + 1))} })
    ELSE IF s[k + 1] \notin LineTerminators THEN <<s[k + 1]>> \o escapeFrom(s, k + 2)
    ELSE IF s[k + 1] = "\n" THEN escapeFrom(s, k + 2)
    ELSE <<s[k]>> \o escapeFrom(s, k + 1)

\* Tokenizer.escape
escape(s) == escapeFrom(s, 1)


-----------------------------------------------------------------------------
(* class Tokenizer: every consumer takes the text and the cursor              *)
(* (nextInputCodePointIndex) and returns the token and the new cursor.        *)

\* Tokenizer.consumeADelimToken
consumeADelimToken(t, n) ==
    Result([type |-> "delim",
            source |-> IF n < Len(t) THEN <<charAt(t, n)>> ELSE UndefinedSource],
           n + 1)

\* a consumeAWhitespace that leaves the cursor where it is
consumeAWhitespaceInPlace(t, n) == Result(Whitespace, n)

\* Tokenizer.consumeAWhitespace
consumeAWhitespace(t, n) == Result(Whitespace, whitespaceRegEx(t, n))

\* Tokenizer.consumeAName
consumeAName(t, n) ==
    Let({ IF m = NoMatch THEN Result(Null, n)
          ELSE Let({ Result([type |-> "ident", source |-> source, name |-> escape(source)], m)
                     : source \in {substring(t, n, m)} })
          : m \in {nameRegEx(t, n)} })

\* Tokenizer.consumeAHashToken
consumeAHashToken(t, n) ==
    Let({ IF Truthy(hashName.token)
          THEN Result([type |-> "hash", source |-> substring(t, n, hashName.next),
                       name |-> hashName.token.name], hashName.next)
          ELSE Result(Null, n)
          : hashName \in {consumeAName(t, n + 1)} })

\* Tokenizer.consumeAtKeyword
consumeAtKeyword(t, n) ==
    Let({ IF Truthy(nameToken.token)
          THEN Result([type |-> "atKeyword", source |-> substring(t, n, nameToken.next),
                       name |-> nameToken.token.name], nameToken.next)
          ELSE Result(Null, n)
          : nameToken \in {consumeAName(t, n + 1)} })

\* Tokenizer.consumeCDO
consumeCDO(t, n) ==
    IF substr(t, n, 4) = <<"<", "!", "-", "-">>
    THEN Result(Simple(<<"<", "!", "-", "-">>), n + 4)
    ELSE Result(Null, n)

\* Tokenizer.consumeCDC
consumeCDC(t, n) ==
    IF substr(t, n, 3) = <<"-", "-", ">">>
    THEN Result(Simple(<<"-", "-", ">">>), n + 3)
    ELSE Result(Null, n)

\* Tokenizer.consumeAMatchToken
consumeAMatchToken(t, n) ==
    IF charAt(t, n + 1) = "="
    THEN Result(Simple(substr(t, n, 2)), n + 2)
    ELSE Result(Null, n)

\* Tokenizer.consumeANumericToken
consumeANumericToken(t, n) ==
    Let({ IF m = NoMatch THEN Result(Null, n)
          ELSE IF charAt(t, m) = "%"
          THEN Result([type |-> "percentage", source |-> substring(t, n, m + 1)], m + 1)
          ELSE Let({ IF Truthy(name.token)
                     THEN Result([type |-> "dimension", source |-> substring(t, n, name.next)],
                                 name.next)
                     ELSE Result([type |-> "number", source |-> substring(t, n, m)], m)
                     : name \in {consumeAName(t, m)} })
          : m \in {numberRegEx(t, n)} })

\* Tokenizer.consumeAStringToken
consumeAStringToken(t, n) ==
    Let({ IF result.last = NoMatch THEN Result(Null, n)
          ELSE Result([type |-> "string", source |-> substring(t, n, result.last),
                       text |-> escape(substring(t, n + 1, result.bodyEnd))], result.last)
          : result \in {quoteStringRegEx(t, n, charAt(t, n))} })

\* a url token whose source starts after the "url("
urlTokenFromParen(t, start, n, url) ==
    Result([type |-> "url", source |-> substring(t, start + 4, n), url |-> url], n)

\* a url token that ends at the cursor n
urlToken(t, start, n, url) ==
    Result([type |-> "url", source |-> substring(t, start, n), url |-> url], n)

RECURSIVE consumeAURLTokenLoop(_, _, _, _)
\* the while loop of consumeAURLToken over an unquoted url
consumeAURLTokenLoop(t, n, start, url) ==
    IF n >= Len(t) THEN urlToken(t, start, n, url)
    ELSE IF charAt(t, n) = ")" THEN urlToken(t, start, n + 1, url)
    ELSE IF charAt(t, n) \in {" ", "\t", "\n", "\r", "\f"}
    THEN Let({ IF charAt(t, w) = ")" THEN urlToken(t, start, w + 1, url) ELSE Result(Null, w)
               : w \in {whitespaceRegEx(t, n + 1)} })
    ELSE IF charAt(t, n) \in {"\"", "'"} THEN Result(Null, n + 1)
    ELSE IF charAt(t, n) = "\\" THEN Result(Throw("Escaping not yet supported!"), n + 1)
    ELSE consumeAURLTokenLoop(t, n + 1, start, Append(url, charAt(t, n)))

\* the quoted url of consumeAURLToken after the whitespace that ends at w
quotedURL(t, start, w, stringToken) ==
    IF charAt(t, w) = ")" \/ w >= Len(t)
    THEN IF Truthy(stringToken) THEN urlToken(t, start, w + 1, stringToken.text)
         ELSE Result(Throw("TypeError: Cannot read property 'text' of null"), w + 1)
    ELSE Result(Null, w)

\* Tokenizer.consumeAURLToken, called with the cursor n0 after the "("
consumeAURLToken(t, n0) ==
    Let({ IF n >= Len(t) THEN urlToken(t, n0 - 4, n, <<>>)
          ELSE IF charAt(t, n) \in {"\"", "'"}
          THEN Let({ quotedURL(t, n0 - 4, whitespaceRegEx(t, stringToken.next),
                               stringToken.token)
                     : stringToken \in {consumeAStringToken(t, n)} })
          ELSE consumeAURLTokenLoop(t, n, n0 - 4, <<>>)
          : n \in {whitespaceRegEx(t, n0)} })

\* Tokenizer.consumeAnIdentLikeToken
consumeAnIdentLikeToken(t, n) ==
    Let({ IF ~Truthy(nameToken.token) THEN Result(Null, n)
          ELSE IF charAt(t, nameToken.next) = "("
          THEN IF toLowerCase(nameToken.token.name) = <<"u", "r", "l">>
               THEN consumeAURLToken(t, nameToken.next + 1)
               ELSE Result([type |-> "functionToken",
                            source |-> substring(t, n, nameToken.next + 1),
                            name |-> nameToken.token.name], nameToken.next + 1)
          ELSE nameToken
          : nameToken \in {consumeAName(t, n)} })

\* str with every "?" replaced by digit
replaceWildcards(str, digit) == [k \in 1..Len(str) |-> IF str[k] = "?" THEN digit ELSE str[k]]

\* a unicode-range token that ends at the cursor n
unicodeRangeToken(t, start, n, startStr, endStr) ==
    Result([type |-> "unicodeRange", source |-> substring(t, start, n),
            start |-> parseIntHex(startStr), end |-> parseIntHex(endStr)], n)

\* Tokenizer.consumeAUnicodeRangeToken, called with the cursor after the "U+"
consumeAUnicodeRangeToken(t, n) ==
    Let({ Let({ IF wildcardEnd /= hexEnd
                THEN unicodeRangeToken(t, n - 2, wildcardEnd,
                                       replaceWildcards(substring(t, n, wildcardEnd), "0"),
                                       replaceWildcards(substring(t, n, wildcardEnd), "F"))
                ELSE IF charAt(t, wildcardEnd) = "-" /\ isHex(charAt(t, wildcardEnd + 1))
                THEN Let({ unicodeRangeToken(t, n - 2, hexEnd2, substring(t, n, wildcardEnd),
                                             substr(t, wildcardEnd + 1, hexEnd2))
                           : hexEnd2 \in {runEnd(t, wildcardEnd + 1,
                                                 Min(Len(t), wildcardEnd + 7), HexChars)} })
                ELSE unicodeRangeToken(t, n - 2, wildcardEnd, substring(t, n, wildcardEnd),
                                       substring(t, n, wildcardEnd))
                : wildcardEnd \in {runEnd(t, hexEnd, Min(Len(t), n + 6), {"?"})} })
          : hexEnd \in {runEnd(t, n, Min(Len(t), n + 6), HexChars)} })

Punctuators == {"(", ")", ",", ":", ";", "[", "]", "{", "}"}

\* the switch of consumeAToken: the consumers that the case of char chains with ||
consumersFor(t, n, char) ==
    CASE char = EOF -> <<"undefined">>
      [] char \in {"\"", "'"} -> <<"consumeAStringToken">>
      [] char \in Punctuators -> <<"char">>
      [] char = "#" -> <<"consumeAHashToken", "consumeADelimToken">>
      [] char \in {" ", "\t", "\n", "\r", "\f"} -> <<"consumeAWhitespace">>
      [] char = "@" -> <<"consumeAtKeyword", "consumeADelimToken">>
      [] char = "\\" -> IF charAt(t, n + 1) = "\n" THEN <<"delim \\">>
                        ELSE <<"consumeAnIdentLikeToken">>
      [] char \in Digits -> <<"consumeANumericToken">>
      [] char \in {"u", "U"} ->
            IF charAt(t, n + 1) = "+" /\ (isHex(charAt(t, n + 2)) \/ charAt(t, n + 2) = "?")
            THEN <<"consumeAUnicodeRangeToken">>
            ELSE <<"consumeAnIdentLikeToken">>
      [] char \in {"$", "*", "^", "|", "~"} -> <<"consumeAMatchToken", "consumeADelimToken">>
      [] char = "-" -> <<"consumeANumericToken", "consumeAnIdentLikeToken", "consumeCDC",
                         "consumeADelimToken">>
      [] char \in {"+", "."} -> <<"consumeANumericToken", "consumeADelimToken">>
      [] char = "/" -> <<"consumeAComment", "consumeADelimToken">>
      [] char = "<" -> <<"consumeCDO", "consumeADelimToken">>
      [] OTHER -> <<"consumeAnIdentLikeToken", "consumeADelimToken">>

\* a consumer's result with prevInputCodePointIndex as the last consumeAToken call set it
At(r, prev) == [token |-> r.token, prev |-> prev, next |-> r.next]

RECURSIVE consumeAToken(_, _)

\* Tokenizer.consumeAComment: the token that follows the comment, or null
consumeAComment(t, n, prev) ==
    IF charAt(t, n + 1) /= "*" THEN At(Result(Null, n), prev)
    ELSE Let({ IF result = NoMatch THEN At(Result(Null, n), prev) ELSE consumeAToken(t, result)
               : result \in {commentRegEx(t, n)} })

\* one consumer of a case of the switch, called with the cursor n
consume(t, n, prev, consumer) ==
    CASE consumer = "undefined" -> At(Result(Undefined, n), prev)
      [] consumer = "char" -> At(Result(Simple(<<charAt(t, n)>>), n + 1), prev)
      [] consumer = "delim \\" -> At(Result([type |-> "delim", source |-> <<"\\">>], n + 1), prev)
      [] consumer = "consumeAStringToken" -> At(consumeAStringToken(t, n), prev)
      [] consumer = "consumeAHashToken" -> At(consumeAHashToken(t, n), prev)
      [] consumer = "consumeADelimToken" -> At(consumeADelimToken(t, n), prev)
      [] consumer = "consumeAWhitespace" -> At(consumeAWhitespace(t, n), prev)
      [] consumer = "consumeAtKeyword" -> At(consumeAtKeyword(t, n), prev)
      [] consumer = "consumeAnIdentLikeToken" -> At(consumeAnIdentLikeToken(t, n), prev)
      [] consumer = "consumeANumericToken" -> At(consumeANumericToken(t, n), prev)
      [] consumer = "consumeAUnicodeRangeToken" -> At(consumeAUnicodeRangeToken(t, n + 2), prev)
      [] consumer = "consumeAMatchToken" -> At(consumeAMatchToken(t, n), prev)
      [] consumer = "consumeCDC" -> At(consumeCDC(t, n), prev)
      [] consumer = "consumeCDO" -> At(consumeCDO(t, n), prev)
      [] consumer = "consumeAComment" -> consumeAComment(t, n, prev)

RECURSIVE firstToken(_, _, _, _, _)
\* a() || b() || ...: the consumers from the k-th on run, each from the cursor the one
\* before left, until one returns a token (or throws) or none is left
firstToken(t, n, prev, consumers, k) ==
    Let({ IF Truthy(r.token) \/ Thrown(r.token) \/ k = Len(consumers) THEN r
          ELSE firstToken(t, r.next, r.prev, consumers, k + 1)
          : r \in {consume(t, n, prev, consumers[k])} })

\* Tokenizer.consumeAToken: [token, prev, next]; prev is prevInputCodePointIndex
consumeAToken(t, n) == firstToken(t, n, n, consumersFor(t, n, charAt(t, n)), 1)


-----------------------------------------------------------------------------
(* class Parser.  A token source is what this.consumeAToken reads: the text  *)
(* cursor of the Tokenizer, or the array and index of a with() closure.      *)
(* Every consumer takes the source and returns its value and the source      *)
(* after it; a value of type "throw" is an exception on its way up.          *)

TextSource(n, p) == [kind |-> "text", next |-> n, prev |-> p]
ListSource(inputTokens) == [kind |-> "list", inputTokens |-> inputTokens, i |-> 0]

\* this.consumeAToken() on the source s
read(t, s) ==
    IF s.kind = "text"
    THEN Let({ [token |-> r.token, s |-> TextSource(r.next, r.prev)]
               : r \in {consumeAToken(t, s.next)} })
    ELSE [token |-> IF s.i < Len(s.inputTokens) THEN s.inputTokens[s.i + 1] ELSE Undefined,
          s |-> [s EXCEPT !.i = @ + 1]]

Value(v, s) == [value |-> v, s |-> s]

\* a consumer that returns an array hands an exception up as the only element
ThrownList(list) == list /= <<>> /\ list[1].type = "throw"

isOpener(tok) == tok.type = "simple" /\ tok.source \in {<<"{">>, <<"[">>, <<"(">>}
isCurlyBlock(tok) == tok.type = "simpleBlock" /\ tok.associatedToken = <<"{">>

\* values.push(value) guarded by if (value)
pushIf(values, value) == IF Truthy(value) THEN Append(values, value) ELSE values

RECURSIVE consumeAComponentValue(_, _, _)
RECURSIVE consumeASimpleBlockLoop(_, _, _, _)
RECURSIVE consumeAFunctionLoop(_, _, _)

\* Parser.consumeASimpleBlock
consumeASimpleBlock(t, associatedToken, s) ==
    consumeASimpleBlockLoop(t, [type |-> "simpleBlock", associatedToken |-> associatedToken,
                                values |-> <<>>], s, endianTokenMap(associatedToken))

\* a loop of consumeASimpleBlock that stores the tokens as it reads them
consumeASimpleBlockLoopStoringTokens(t, block, s, endianToken) ==
    Let({ IF Thrown(r.token) THEN Value(r.token, r.s)
          ELSE IF ~Truthy(r.token) \/ isSimple(r.token, endianToken) THEN Value(block, r.s)
          ELSE consumeASimpleBlockLoop(t, [block EXCEPT !.values = pushIf(@, r.token)],
                                       r.s, endianToken)
          : r \in {read(t, s)} })

\* the while loop of consumeASimpleBlock
consumeASimpleBlockLoop(t, block, s, endianToken) ==
    Let({ IF Thrown(r.token) THEN Value(r.token, r.s)
          ELSE IF ~Truthy(r.token) \/ isSimple(r.token, endianToken) THEN Value(block, r.s)
          ELSE Let({ IF Thrown(value.value) THEN value
                     ELSE consumeASimpleBlockLoop(t,
                              [block EXCEPT !.values = pushIf(@, value.value)],
                              value.s, endianToken)
                     : value \in {consumeAComponentValue(t, r.token, r.s)} })
          : r \in {read(t, s)} })

\* Parser.consumeAFunction
consumeAFunction(t, name, s) ==
    consumeAFunctionLoop(t, [type |-> "functionObject", name |-> name, components |-> <<>>], s)

\* a loop of consumeAFunction that stores the ) it ends on
consumeAFunctionLoopStoringParen(t, functionToken, s) ==
    Let({ IF Thrown(r.token) THEN Value(r.token, r.s)
          ELSE IF ~Truthy(r.token) THEN Value(functionToken, r.s)
          ELSE IF isSimple(r.token, <<")">>)
          THEN Value([functionToken EXCEPT !.components = Append(@, r.token)], r.s)
          ELSE Let({ IF Thrown(component.value) THEN component
                     ELSE consumeAFunctionLoop(t,
                              [functionToken EXCEPT
                                   !.components = pushIf(@, component.value)], component.s)
                     : component \in {consumeAComponentValue(t, r.token, r.s)} })
          : r \in {read(t, s)} })
\* the while loop of consumeAFunction
consumeAFunctionLoop(t, functionToken, s) ==
    Let({ IF Thrown(r.token) THEN Value(r.token, r.s)
          ELSE IF ~Truthy(r.token) \/ isSimple(r.token, <<")">>) THEN Value(functionToken, r.s)
          ELSE Let({ IF Thrown(component.value) THEN component
                     ELSE consumeAFunctionLoop(t,
                              [functionToken EXCEPT
                                   !.components = pushIf(@, component.value)], component.s)
                     : component \in {consumeAComponentValue(t, r.token, r.s)} })
          : r \in {read(t, s)} })

isCloser(tok) == tok.type = "simple" /\ tok.source \in {<<"}">>, <<"]">>, <<")">>}

\* consumeAComponentValue discarding a closing token instead of returning it
consumeAComponentValueDiscardingClosers(t, reconsumedInputToken, s) ==
    IF isOpener(reconsumedInputToken)
    THEN consumeASimpleBlock(t, reconsumedInputToken.source, s)
    ELSE IF reconsumedInputToken.type = "functionToken"
    THEN consumeAFunction(t, reconsumedInputToken.name, s)
    ELSE IF isCloser(reconsumedInputToken) THEN Value(Undefined, s)
    ELSE Value(reconsumedInputToken, s)

\* Parser.consumeAComponentValue
consumeAComponentValue(t, reconsumedInputToken, s) ==
    IF isOpener(reconsumedInputToken)
    THEN consumeASimpleBlock(t, reconsumedInputToken.source, s)
    ELSE IF reconsumedInputToken.type = "null"
    THEN Value(Throw("TypeError: Cannot read property 'type' of null"), s)
    ELSE IF reconsumedInputToken.type = "functionToken"
    THEN consumeAFunction(t, reconsumedInputToken.name, s)
    ELSE Value(reconsumedInputToken, s)

\* rule.block = block, unless the block is an exception on its way up
withBlock(rule, block) ==
    IF Thrown(block.value) THEN block ELSE Value([rule EXCEPT !.block = block.value], block.s)

RECURSIVE consumeAnAtRuleLoop(_, _, _)
\* a loop of consumeAnAtRule that returns no rule when the tokens end
consumeAnAtRuleLoopDroppingAtEnd(t, atRule, s) ==
    Let({ IF Thrown(r.token) THEN Value(r.token, r.s)
          ELSE IF ~Truthy(r.token) THEN Value(Null, r.s)
          ELSE IF isSimple(r.token, <<";">>) THEN Value(atRule, r.s)
          ELSE IF isSimple(r.token, <<"{">>)
          THEN withBlock(atRule, consumeASimpleBlock(t, <<"{">>, r.s))
          ELSE IF isCurlyBlock(r.token) THEN withBlock(atRule, Value(r.token, r.s))
          ELSE Let({ IF Thrown(component.value) THEN component
                     ELSE consumeAnAtRuleLoop(t,
                              [atRule EXCEPT !.prelude = pushIf(@, component.value)],
                              component.s)
                     : component \in {consumeAComponentValue(t, r.token, r.s)} })
          : r \in {read(t, s)} })

\* the while loop of consumeAnAtRule
consumeAnAtRuleLoop(t, atRule, s) ==
    Let({ IF Thrown(r.token) THEN Value(r.token, r.s)
          ELSE IF ~Truthy(r.token) \/ isSimple(r.token, <<";">>) THEN Value(atRule, r.s)
          ELSE IF isSimple(r.token, <<"{">>)
          THEN withBlock(atRule, consumeASimpleBlock(t, <<"{">>, r.s))
          ELSE IF isCurlyBlock(r.token) THEN withBlock(atRule, Value(r.token, r.s))
          ELSE Let({ IF Thrown(component.value) THEN component
                     ELSE consumeAnAtRuleLoop(t,
                              [atRule EXCEPT !.prelude = pushIf(@, component.value)],
                              component.s)
                     : component \in {consumeAComponentValue(t, r.token, r.s)} })
          : r \in {read(t, s)} })

\* Parser.consumeAnAtRule
consumeAnAtRule(t, reconsumedInputToken, s) ==
    consumeAnAtRuleLoop(t, [type |-> "at-rule", name |-> reconsumedInputToken.name,
                            prelude |-> <<>>, block |-> Undefined], s)

RECURSIVE consumeAQualifiedRuleLoop(_, _, _, _)
\* a loop of consumeAQualifiedRule that returns the rule it has when the tokens end
consumeAQualifiedRuleLoopKeepingRule(t, qualifiedRule, inputToken, s) ==
    IF isSimple(inputToken, <<"{">>)
    THEN withBlock(qualifiedRule, consumeASimpleBlock(t, <<"{">>, s))
    ELSE IF isCurlyBlock(inputToken) THEN withBlock(qualifiedRule, Value(inputToken, s))
    ELSE Let({ IF Thrown(componentValue.value) THEN componentValue
               ELSE Let({ IF Thrown(r.token) THEN Value(r.token, r.s)
                          ELSE IF ~Truthy(r.token)
                          THEN Value([qualifiedRule EXCEPT
                                          !.prelude = pushIf(@, componentValue.value)], r.s)
                          ELSE consumeAQualifiedRuleLoop(t,
                                   [qualifiedRule EXCEPT
                                        !.prelude = pushIf(@, componentValue.value)],
                                   r.token, r.s)
                          : r \in {read(t, componentValue.s)} })
               : componentValue \in {consumeAComponentValue(t, inputToken, s)} })

\* the do-while loop of consumeAQualifiedRule, inputToken its current token
consumeAQualifiedRuleLoop(t, qualifiedRule, inputToken, s) ==
    IF isSimple(inputToken, <<"{">>)
    THEN withBlock(qualifiedRule, consumeASimpleBlock(t, <<"{">>, s))
    ELSE IF isCurlyBlock(inputToken) THEN withBlock(qualifiedRule, Value(inputToken, s))
    ELSE Let({ IF Thrown(componentValue.value) THEN componentValue
               ELSE Let({ IF Thrown(r.token) THEN Value(r.token, r.s)
                          ELSE IF ~Truthy(r.token) THEN Value(Null, r.s)
                          ELSE consumeAQualifiedRuleLoop(t,
                                   [qualifiedRule EXCEPT
                                        !.prelude = pushIf(@, componentValue.value)],
                                   r.token, r.s)
                          : r \in {read(t, componentValue.s)} })
               : componentValue \in {consumeAComponentValue(t, inputToken, s)} })

\* Parser.consumeAQualifiedRule
consumeAQualifiedRule(t, reconsumedInputToken, s) ==
    consumeAQualifiedRuleLoop(t, [type |-> "qualified-rule", prelude |-> <<>>,
                                  block |-> Undefined], reconsumedInputToken, s)

RECURSIVE consumeAListOfRulesLoop(_, _, _, _)
\* the while loop of consumeAListOfRules; flag is this.topLevelFlag
consumeAListOfRulesLoop(t, flag, rules, s) ==
    Let({ IF Thrown(r.token) THEN Value(<<r.token>>, r.s)
          ELSE IF ~Truthy(r.token) THEN Value(rules, r.s)
          ELSE IF \/ isWhitespaceToken(r.token)
                  \/ /\ flag
                     /\ \/ isSimple(r.token, <<"<", "!", "-", "-">>)
                        \/ isSimple(r.token, <<"-", "-", ">">>)
          THEN consumeAListOfRulesLoop(t, flag, rules, r.s)
          ELSE Let({ IF Thrown(rule.value) THEN Value(<<rule.value>>, rule.s)
                     ELSE consumeAListOfRulesLoop(t, flag, pushIf(rules, rule.value), rule.s)
                     : rule \in {IF r.token.type = "atKeyword"
                                 THEN consumeAnAtRule(t, r.token, r.s)
                                 ELSE consumeAQualifiedRule(t, r.token, r.s)} })
          : r \in {read(t, s)} })

\* Parser.consumeAListOfRules
consumeAListOfRules(t, flag, s) == consumeAListOfRulesLoop(t, flag, <<>>, s)

\* Parser.parseAStylesheet after its reset(text), on the token source s of the instance:
\* topLevelFlag = true, consumeAListOfRules()
parseAStylesheetOn(t, s) == consumeAListOfRules(t, TRUE, s)

\* Parser.parseAStylesheet on a new instance: reset(text) leaves the cursor at 0
parseAStylesheet(t) == parseAStylesheetOn(t, TextSource(0, -1))

-----------------------------------------------------------------------------
(* Bounded input texts: concatenations of fragments *)

RECURSIVE Concatenations(_, _)
\* every concatenation of at most n fragments of F
Concatenations(F, n) ==
    IF n = 0 THEN {<<>>}
    ELSE LET shorter == Concatenations(F, n - 1)
         IN  shorter \cup {f \o c : f \in F, c \in shorter}

\* the index of the first "*/" of t at or after p, or NoMatch
RECURSIVE firstCommentClose(_, _)
firstCommentClose(t, p) ==
    IF p + 1 >= Len(t) THEN NoMatch
    ELSE IF charAt(t, p) = "*" /\ charAt(t, p + 1) = "/" THEN p
    ELSE firstCommentClose(t, p + 1)

\* the cursor at which the call that returned tokens[k] started
callStart(k) == IF k = 1 THEN 0 ELSE spans[k - 1][2]

-----------------------------------------------------------------------------
(* Tokenizer.tokenize(text): the state after reset(text), then one action    *)
(* per iteration of its while loop.                                          *)

TokMaxFragments == 5
UrlMaxFragments == 4

TokFragments == {<<" ">>, <<"a">>, <<"/", "*">>, <<"*">>, <<"/">>}
UrlFragments == {<<"\\", "7", "5">>, <<"u">>, <<"r", "l", "(">>, <<"a">>, <<")">>,
                 <<" ">>, <<"\\">>}

\* the fields no tokenize() call touches
IdleParser ==
    /\ stylesheet = <<>>
    /\ atRuleParsers = <<>>
    /\ added = <<>>
    /\ calls = <<>>
    /\ consumeATokenFn = [kind |-> "text"]
    /\ startFn = "super"
    /\ endFn = "super"
    /\ lastCall = "none"
    /\ frames = <<>>
    /\ active = <<>>
    /\ topLevelFlag = FALSE
    /\ history = <<>>

\* Tokenizer.reset, as called by tokenize(text) on a new instance
reset(t) ==
    /\ text = t
    /\ nextInputCodePointIndex = 0
    /\ prevInputCodePointIndex = -1
    /\ tokens = <<>>
    /\ spans = <<>>
    /\ raised = "none"
    /\ lastToken = Undefined
    /\ line = 1
    /\ lineStartIndex = 0
    /\ lineEndIndex = -1

InitTok == \E t \in Concatenations(TokFragments, TokMaxFragments) :
              reset(t) /\ pc = "tokenize" /\ IdleParser

InitUrl == \E t \in Concatenations(UrlFragments, UrlMaxFragments) :
              reset(t) /\ pc = "tokenize" /\ IdleParser

tokenizeUnchanged == UNCHANGED <<text, stylesheet, atRuleParsers, added, calls,
                                 consumeATokenFn, startFn, endFn, frames, active,
                                 lastCall, topLevelFlag, lineFields, history>>

\* an iteration of tokenize's loop whose consumeAToken returns a token
TokenizePush ==
    /\ pc = "tokenize"
    /\ \E r \in {consumeAToken(text, nextInputCodePointIndex)} :
          /\ Truthy(r.token)
          /\ nextInputCodePointIndex' = r.next
          /\ prevInputCodePointIndex' = r.prev
          /\ lastToken' = r.token
          /\ tokens' = Append(tokens, r.token)
          /\ spans' = Append(spans, <<r.prev, r.next>>)
    /\ UNCHANGED <<pc, raised>>
    /\ tokenizeUnchanged

\* the iteration whose consumeAToken returns undefined or null: the loop ends
TokenizeEnd ==
    /\ pc = "tokenize"
    /\ \E r \in {consumeAToken(text, nextInputCodePointIndex)} :
          /\ ~Truthy(r.token) /\ ~Thrown(r.token)
          /\ nextInputCodePointIndex' = r.next
          /\ prevInputCodePointIndex' = r.prev
          /\ lastToken' = r.token
    /\ pc' = "done"
    /\ UNCHANGED <<tokens, spans, raised>>
    /\ tokenizeUnchanged

\* the iteration whose consumeAToken throws: tokenize() throws
TokenizeThrow ==
    /\ pc = "tokenize"
    /\ \E r \in {consumeAToken(text, nextInputCodePointIndex)} :
          /\ Thrown(r.token)
          /\ nextInputCodePointIndex' = r.next
          /\ prevInputCodePointIndex' = r.prev
          /\ lastToken' = r.token
          /\ raised' = r.token.message
    /\ pc' = "done"
    /\ UNCHANGED <<tokens, spans>>
    /\ tokenizeUnchanged

NextTok == TokenizePush \/ TokenizeEnd
SpecTok == InitTok /\ [][NextTok]_vars

NextUrl == TokenizePush \/ TokenizeEnd \/ TokenizeThrow
SpecUrl == InitUrl /\ [][NextUrl]_vars


-----------------------------------------------------------------------------
(* Claims about tokenize *)

\* C7 as stated: no two consecutive tokens of tokenize(text) are both whitespace tokens
C7_NoAdjacentWhitespace ==
    \A k \in 1..(Len(tokens) - 1) : ~(isWhitespaceToken(tokens[k]) /\ isWhitespaceToken(tokens[k + 1]))

\* C7 amended: two consecutive whitespace tokens occur only where the source has a
\* comment between the two whitespace runs; runs with nothing between them are one token
C7_AdjacentWhitespaceOnlyAcrossComment ==
    \A k \in 1..(Len(tokens) - 1) :
        (isWhitespaceToken(tokens[k]) /\ isWhitespaceToken(tokens[k + 1])) =>
            LET gap == substring(text, spans[k][2], spans[k + 1][1])
            IN  /\ Len(gap) >= 4
                /\ SubSeq(gap, 1, 2) = <<"/", "*">>
                /\ SubSeq(gap, Len(gap) - 1, Len(gap)) = <<"*", "/">>

\* C7 witness: tokenize has returned two whitespace tokens in a row
C7_Witness ==
    \E k \in 1..(Len(tokens) - 1) : isWhitespaceToken(tokens[k]) /\ isWhitespaceToken(tokens[k + 1])

\* C8 as stated: a consumeAToken call that starts at a "/*" which has a following "*/"
\* emits nothing for the comment: its token starts at or after the end of the first "*/"
C8_CommentEndsAtFirstClose ==
    \A k \in 1..Len(tokens) :
        LET n == callStart(k)
            j == firstCommentClose(text, n + 2)
        IN  (charAt(text, n) = "/" /\ charAt(text, n + 1) = "*" /\ j /= NoMatch)
                => spans[k][1] >= j + 2

RECURSIVE normalized(_, _)
\* t from index p with every comment removed and every whitespace run replaced by one space
normalized(t, p) ==
    LET j == firstCommentClose(t, p + 2)
    IN  IF p >= Len(t) THEN <<>>
        ELSE IF charAt(t, p) = "/" /\ charAt(t, p + 1) = "*" /\ j /= NoMatch
        THEN normalized(t, j + 2)
        ELSE IF charAt(t, p) \in RegexSpace
        THEN <<" ">> \o normalized(t, runEnd(t, p, Len(t), RegexSpace))
        ELSE <<charAt(t, p)>> \o normalized(t, p + 1)

\* C10 as stated: each token's source is the input substring the token consumed (a
\* whitespace token stands for its run), and once tokenize has reached the end of the
\* text the sources in order give the text with comments removed and whitespace collapsed
C10_SourcesReconstructInput ==
    /\ \A k \in 1..Len(tokens) :
          IF isWhitespaceToken(tokens[k])
          THEN \A i \in (spans[k][1] + 1)..spans[k][2] : text[i] \in RegexSpace
          ELSE toString(tokens[k]) = substring(text, spans[k][1], spans[k][2])
    /\ (pc = "done" /\ lastToken = Undefined /\ raised = "none")
          => join([k \in 1..Len(tokens) |-> toString(tokens[k])]) = normalized(text, 0)


-----------------------------------------------------------------------------
(* Parser.parseAStylesheet(text) *)

ParseMaxRules == 3
BlockMaxFragments == 5

BadUrl == <<"u", "r", "l", "(", "p", " ", "p", ")">>
WellFormedRules == {<<"p", "{", "}">>, <<"q", "{", "p", "}">>}
AnomalousRules == {BadUrl \o <<"{", "}">>,
                   <<"p", "{">> \o BadUrl \o <<"}">>,
                   <<"@", "x", " ">> \o BadUrl \o <<";">>}
BlockFragments == {<<"p">>, <<"{">>, <<"}">>, <<"(">>, <<")">>, <<"\\">>}

InitParse == \E t \in Concatenations(WellFormedRules \cup AnomalousRules, ParseMaxRules) :
                reset(t) /\ pc = "parse" /\ IdleParser

InitBlocks == \E t \in Concatenations(BlockFragments, BlockMaxFragments) :
                 reset(t) /\ pc = "parse" /\ IdleParser

\* parseAStylesheet(text) on the text that is loaded
ParseAStylesheet ==
    /\ pc = "parse"
    /\ topLevelFlag' = TRUE
    /\ \E r \in {parseAStylesheet(text)} :
          /\ nextInputCodePointIndex' = r.s.next
          /\ prevInputCodePointIndex' = r.s.prev
          /\ stylesheet' = IF ThrownList(r.value) THEN stylesheet ELSE r.value
          /\ raised' = IF ThrownList(r.value) THEN r.value[1].message ELSE "none"
    /\ pc' = "done"
    /\ UNCHANGED <<text, tokens, spans, atRuleParsers, added, calls, consumeATokenFn,
                   startFn, endFn, frames, active, lastToken, lastCall, lineFields, history>>

SpecParse == InitParse /\ [][ParseAStylesheet]_vars
SpecBlocks == InitBlocks /\ [][ParseAStylesheet]_vars

-----------------------------------------------------------------------------
(* Claims about parseAStylesheet *)

isSuffix(a, b) == Len(a) <= Len(b) /\ SubSeq(b, Len(b) - Len(a) + 1, Len(b)) = a

\* C2 as stated: an anomaly never aborts parseAStylesheet and costs only its own
\* construct: when the text is complete rules (some with a bad url) followed by
\* well-formed rules, the returned rules end with the rules of that well-formed part
C2_FollowingRulesSurvive ==
    pc = "done" =>
        \A k \in 0..Len(text) :
            (/\ substring(text, 0, k)
                    \in Concatenations(WellFormedRules \cup AnomalousRules, ParseMaxRules)
             /\ substring(text, k, Len(text)) \in Concatenations(WellFormedRules, ParseMaxRules))
            => /\ raised = "none"
               /\ isSuffix(parseAStylesheet(substring(text, k, Len(text))).value, stylesheet)

\* the source text of a list of component values
render(values) == join([k \in 1..Len(values) |-> toString(values[k])])

\* the source text of a list of qualified rules: each prelude, then its block
renderRules(rules) ==
    join([k \in 1..Len(rules) |-> render(rules[k].prelude) \o toString(rules[k].block)])

RECURSIVE tokenizingStops(_, _)
\* the index at which consumeAToken first returns no token, from the cursor n
tokenizingStops(t, n) ==
    Let({ IF Truthy(r.token) THEN tokenizingStops(t, r.next) ELSE r.prev
          : r \in {consumeAToken(t, n)} })

RECURSIVE blocksOf(_)
\* every SimpleBlock among the component values, at any depth
blocksOf(values) ==
    IF values = <<>> THEN {}
    ELSE LET v == Head(values)
         IN  (CASE v.type = "simpleBlock" -> {v} \cup blocksOf(v.values)
                [] v.type = "functionObject" -> blocksOf(v.components)
                [] OTHER -> {})
             \cup blocksOf(Tail(values))

\* the SimpleBlocks of the tree in stylesheet
treeBlocks ==
    UNION {blocksOf(stylesheet[k].prelude) \cup blocksOf(<<stylesheet[k].block>>)
              : k \in 1..Len(stylesheet)}

\* a block holds neither a bare opener nor its own closing token
balanced(block) ==
    \A i \in 1..Len(block.values) :
        /\ ~isOpener(block.values[i])
        /\ ~isSimple(block.values[i], endianTokenMap(block.associatedToken))

\* C9 as stated: every SimpleBlock of the tree is balanced, and no closing token that
\* was met at the top level is kept in a rule's prelude
C9_BalancedAndClosersDiscarded ==
    pc = "done" =>
        /\ \A b \in treeBlocks : balanced(b)
        /\ \A k \in 1..Len(stylesheet) :
              \A i \in 1..Len(stylesheet[k].prelude) : ~isCloser(stylesheet[k].prelude[i])

\* C9 amended: every SimpleBlock is balanced and holds exactly the component values from
\* its opener to its matching closer (or to the end of the tokens), and a closing token met
\* at the top level is kept in the prelude of its rule: the rules written out again are
\* the text up to where tokenizing stopped, less a last rule that got no block, plus
\* the closers of the blocks that the end of the tokens closed
C9_BalancedAndClosersKept ==
    pc = "done" =>
        /\ \A b \in treeBlocks : balanced(b)
        /\ LET R == renderRules(stylesheet)
               stop == tokenizingStops(text, 0)
           IN  \E j \in 0..stop :
                  /\ j <= Len(R)
                  /\ SubSeq(R, 1, j) = SubSeq(text, 1, j)
                  /\ \A i \in (j + 1)..Len(R) : R[i] \in {"}", ")"}
                  /\ Len(R) > j => j = stop
                  /\ parseAStylesheet(substring(text, j, stop)).value = <<>>

\* C9 witness: a returned rule keeps a closing token in its prelude and has a block
\* with a nested block in it
C9_Witness ==
    /\ pc = "done"
    /\ \E k \in 1..Len(stylesheet) :
          /\ \E i \in 1..Len(stylesheet[k].prelude) : isCloser(stylesheet[k].prelude[i])
          /\ \E i \in 1..Len(stylesheet[k].block.values) :
                stylesheet[k].block.values[i].type = "simpleBlock"

-----------------------------------------------------------------------------
(* class CSSParser.  with(inputTokens, action) runs action on the array and  *)
(* leaves the source that was in effect before the call in effect after it.  *)

\* CSSParser.with, a whole call: returned is what action returned after it ran on
\* ListSource(inputTokens); the source s that was in effect before is in effect again
with(returned, s) == Value(returned.value, s)

\* split(arr, sep): the for loop from the indices start and end (0-based)
RECURSIVE splitLoop(_, _, _, _, _)
splitLoop(arr, sep, start, end, result) ==
    IF end > Len(arr) THEN result
    ELSE IF (end < Len(arr) /\ isSimple(arr[end + 1], sep)) \/ end = Len(arr)
    THEN IF start /= end
         THEN splitLoop(arr, sep, end + 1, end + 1, Append(result, SubSeq(arr, start + 1, end)))
         ELSE splitLoop(arr, sep, start, end + 1, result)
    ELSE splitLoop(arr, sep, start, end + 1, result)

split(arr, sep) == splitLoop(arr, sep, 0, 0, <<>>)

\* arrayToString(tokens)
arrayToString(toks) == trim(join([k \in 1..Len(toks) |-> toString(toks[k])]))

\* isDeclaration(rule)
isDeclaration(rule) == rule.type = "declaration"

\* the token types that have a name property
hasName(tok) == tok.type \in {"ident", "functionToken", "atKeyword", "hash", "functionObject"}

\* typeof token === "object" for an element of a token array
isObject(tok) == tok.type \notin {"simple", "undefined"}

\* the first while loop of consumeADeclaration: the first token that is not " "
RECURSIVE skipWhitespace(_, _)
skipWhitespace(t, s) ==
    Let({ IF isWhitespaceToken(r.token) THEN skipWhitespace(t, r.s) ELSE r
          : r \in {read(t, s)} })

\* the second while loop of consumeADeclaration: every token up to the end
RECURSIVE readValueInputTokens(_, _, _)
readValueInputTokens(t, valueInputTokens, s) ==
    Let({ IF Thrown(r.token) THEN Value(<<r.token>>, r.s)
          ELSE IF Truthy(r.token)
          THEN readValueInputTokens(t, Append(valueInputTokens, r.token), r.s)
          ELSE Value(valueInputTokens, r.s)
          : r \in {read(t, s)} })

\* while (l >= 0 && valueInputTokens[l] === " ") { --l; }   (l is 0-based)
RECURSIVE lastNonWhitespaceIndex(_, _)
lastNonWhitespaceIndex(valueInputTokens, l) ==
    IF l >= 0 /\ isWhitespaceToken(valueInputTokens[l + 1])
    THEN lastNonWhitespaceIndex(valueInputTokens, l - 1)
    ELSE l

\* valueInputTokens[l], undefined outside the array
elementAt(arr, l) == IF l >= 0 /\ l < Len(arr) THEN arr[l + 1] ELSE Undefined

\* the value tokens of a declaration without a trailing "!" "important"
withoutImportant(valueInputTokens) ==
    LET l == lastNonWhitespaceIndex(valueInputTokens, Len(valueInputTokens) - 1)
        lastNonWhitespace == elementAt(valueInputTokens, l)
        l2 == lastNonWhitespaceIndex(valueInputTokens, l - 1)
        oneBeforeLastNonWhitespace == elementAt(valueInputTokens, l2)
    IN  IF /\ isObject(lastNonWhitespace)
           /\ lastNonWhitespace.type = "ident"
           /\ lastNonWhitespace.name = <<"i", "m", "p", "o", "r", "t", "a", "n", "t">>
           /\ isObject(oneBeforeLastNonWhitespace)
           /\ oneBeforeLastNonWhitespace.type = "delim"
           /\ oneBeforeLastNonWhitespace.source = <<"!">>
        THEN SubSeq(valueInputTokens, 1, l2)
        ELSE valueInputTokens

\* the Decl that consumeADeclaration returns for the first token and the value tokens
Decl(first, valueInputTokens) ==
    [type |-> "declaration",
     property |-> IF hasName(first) THEN first.name ELSE UndefinedSource,
     value |-> trim(join([k \in 1..Len(valueInputTokens) |-> toString(valueInputTokens[k])]))]

\* CSSParser.consumeADeclaration
consumeADeclaration(t, s) ==
    Let({ IF Thrown(first.token) THEN Value(first.token, first.s)
          ELSE IF ~Truthy(first.token)
          THEN Value(Throw("TypeError: Cannot read property 'name' of undefined"), first.s)
          ELSE Let({ IF Thrown(inputToken.token) THEN Value(inputToken.token, inputToken.s)
                     ELSE IF ~isSimple(inputToken.token, <<":">>)
                     THEN Value(Undefined, inputToken.s)
                     ELSE Let({ IF ThrownList(rest.value) THEN Value(rest.value[1], rest.s)
                                ELSE Value(Decl(first.token, withoutImportant(rest.value)),
                                           rest.s)
                                : rest \in {readValueInputTokens(t, <<>>, inputToken.s)} })
                     : inputToken \in {skipWhitespace(t, first.s)} })
          : first \in {read(t, s)} })

RECURSIVE declarationTokens(_, _, _)
\* a gathering loop that does not stop at ";"
declarationTokensPastSemicolon(t, list, s) ==
    Let({ IF Thrown(r.token) THEN Value(<<r.token>>, r.s)
          ELSE IF Truthy(r.token)
          THEN declarationTokens(t, Append(list, r.token), r.s)
          ELSE Value(list, r.s)
          : r \in {read(t, s)} })

\* the while loop of consumeAListOfDeclarations that gathers a declaration's tokens
declarationTokens(t, list, s) ==
    Let({ IF Thrown(r.token) THEN Value(<<r.token>>, r.s)
          ELSE IF Truthy(r.token) /\ ~isSimple(r.token, <<";">>)
          THEN declarationTokens(t, Append(list, r.token), r.s)
          ELSE Value(list, r.s)
          : r \in {read(t, s)} })

\* the last while loop of consumeAListOfDeclarations: component values up to a ";"
RECURSIVE skipComponentValues(_, _, _)
skipComponentValues(t, inputToken, s) ==
    Let({ IF Thrown(value.value) THEN value
          ELSE IF Truthy(value.value) /\ ~isSimple(value.value, <<";">>)
          THEN Let({ IF Thrown(r.token) THEN Value(r.token, r.s)
                     ELSE skipComponentValues(t, r.token, r.s)
                     : r \in {read(t, value.s)} })
          ELSE Value(Undefined, value.s)
          : value \in {consumeAComponentValue(t, inputToken, s)} })

RECURSIVE consumeAListOfDeclarationsLoop(_, _, _)
\* the outer while loop of consumeAListOfDeclarations
consumeAListOfDeclarationsLoop(t, declarations, s) ==
    Let({ IF Thrown(r.token) THEN Value(<<r.token>>, r.s)
          ELSE IF ~Truthy(r.token) THEN Value(declarations, r.s)
          ELSE IF isWhitespaceToken(r.token) \/ isSimple(r.token, <<";">>)
          THEN consumeAListOfDeclarationsLoop(t, declarations, r.s)
          ELSE IF r.token.type = "atKeyword"
          THEN Let({ IF Thrown(atRule.value) THEN Value(<<atRule.value>>, atRule.s)
                     ELSE consumeAListOfDeclarationsLoop(t, Append(declarations, atRule.value),
                                                         atRule.s)
                     : atRule \in {consumeAnAtRule(t, r.token, r.s)} })
          ELSE IF r.token.type = "ident"
          THEN Let({ IF ThrownList(list.value) THEN list
                     ELSE Let({ IF Thrown(declaration.value)
                                THEN Value(<<declaration.value>>, declaration.s)
                                ELSE consumeAListOfDeclarationsLoop(t,
                                         pushIf(declarations, declaration.value),
                                         declaration.s)
                                : declaration \in
                                      {with(consumeADeclaration(t, ListSource(list.value)),
                                            list.s)} })
                     : list \in {declarationTokens(t, <<r.token>>, r.s)} })
          ELSE Let({ IF Thrown(skipped.value) THEN Value(<<skipped.value>>, skipped.s)
                     ELSE consumeAListOfDeclarationsLoop(t, declarations, skipped.s)
                     : skipped \in {skipComponentValues(t, r.token, r.s)} })
          : r \in {read(t, s)} })

\* CSSParser.consumeAListOfDeclarations
consumeAListOfDeclarations(t, s) == consumeAListOfDeclarationsLoop(t, <<>>, s)

RECURSIVE selectorsOfUntrimmed(_, _, _)
\* the forEach of interpretAsStyleRule pushing each selector as it was gathered, without
\* selector.trim() and without if (selector)
selectorsOfUntrimmed(prelude, selectors, selector) ==
    IF prelude = <<>> THEN Append(selectors, selector)
    ELSE IF isSimple(Head(prelude), <<",">>)
    THEN selectorsOfUntrimmed(Tail(prelude), Append(selectors, selector), <<>>)
    ELSE selectorsOfUntrimmed(Tail(prelude), selectors, selector \o toString(Head(prelude)))

\* the forEach of interpretAsStyleRule over the prelude, then the last selector
RECURSIVE selectorsOf(_, _, _)
selectorsOf(prelude, selectors, selector) ==
    IF prelude = <<>>
    THEN IF trim(selector) /= <<>> THEN Append(selectors, trim(selector)) ELSE selectors
    ELSE IF isSimple(Head(prelude), <<",">>)
    THEN selectorsOf(Tail(prelude),
                     IF trim(selector) /= <<>> THEN Append(selectors, trim(selector))
                     ELSE selectors,
                     <<>>)
    ELSE selectorsOf(Tail(prelude), selectors, selector \o toString(Head(prelude)))

\* CSSParser.interpretAsStyleRule (no rule has a position)
interpretAsStyleRule(t, qualifiedRule, s) ==
    Let({ IF ThrownList(declarations.value) THEN Value(declarations.value[1], s)
          ELSE Value([type |-> "rule",
                      selectors |-> selectorsOf(qualifiedRule.prelude, <<>>, <<>>),
                      declarations |-> declarations.value], s)
          : declarations \in
                {with(consumeAListOfDeclarations(t, ListSource(qualifiedRule.block.values)),
                      s)} })

\* importParser (no rule has a position)
importParser(atRule) ==
    [type |-> "import",
     import |-> trim(join([k \in 1..Len(atRule.prelude) |-> toString(atRule.prelude[k])]))]

\* split(rule.prelude, ",").map(arrayToString)
keyframeValues(groups) == [k \in 1..Len(groups) |-> arrayToString(groups[k])]

\* the forEach of keyframesParser over the rules of the block
RECURSIVE keyframesOf(_, _, _, _)
keyframesOf(t, rules, keyframes, s) ==
    IF rules = <<>> THEN Value(keyframes, s)
    ELSE IF Head(rules).type /= "qualified-rule" THEN keyframesOf(t, Tail(rules), keyframes, s)
    ELSE Let({ IF ThrownList(declarations.value) THEN declarations
               ELSE keyframesOf(t, Tail(rules),
                        Append(keyframes,
                               [type |-> "keyframe",
                                values |-> keyframeValues(split(Head(rules).prelude, <<",">>)),
                                declarations |-> SelectSeq(declarations.value, isDeclaration)]),
                        s)
               : declarations \in
                     {with(consumeAListOfDeclarations(t, ListSource(Head(rules).block.values)),
                           s)} })

\* keyframesParser; flag is this.topLevelFlag
keyframesParser(t, atRule, flag, s) ==
    IF atRule.block = Undefined
    THEN Value(Throw("TypeError: Cannot read property 'values' of undefined"), s)
    ELSE Let({ IF ThrownList(rules.value) THEN Value(rules.value[1], s)
               ELSE Let({ IF ThrownList(keyframes.value) THEN Value(keyframes.value[1], s)
                          ELSE Value([type |-> "keyframes", name |-> arrayToString(atRule.prelude),
                                      keyframes |-> keyframes.value], s)
                          : keyframes \in {keyframesOf(t, rules.value, <<>>, s)} })
               : rules \in {with(consumeAListOfRules(t, flag, ListSource(atRule.block.values)),
                                 s)} })

\* an AtRuleParser: a function fn with its keyword property
AtRuleParser(fn, keyword) == [fn |-> fn, keyword |-> keyword]

\* the two handlers the module exports, and two that a caller wrote: one returns an
\* object for its rule, the other returns nothing
ExportedImportParser == AtRuleParser("importParser", <<"i", "m", "p", "o", "r", "t">>)
ExportedKeyframesParser == AtRuleParser("keyframesParser", <<"k", "e", "y", "f", "r", "a", "m", "e", "s">>)
CallerImportParser == AtRuleParser("callerReturnsObject", <<"i", "m", "p", "o", "r", "t">>)
CallerKeyframesParser == AtRuleParser("callerReturnsNothing", <<"k", "e", "y", "f", "r", "a", "m", "e", "s">>)
AtRuleParsers == {ExportedImportParser, ExportedKeyframesParser, CallerImportParser,
                  CallerKeyframesParser}

\* CSSParser.addAtRuleParser keeping the handler that a keyword already has
addAtRuleParserKeepingFirst(parsers, atRuleParser) ==
    [keyword \in DOMAIN parsers \cup {atRuleParser.keyword} |->
        IF keyword \in DOMAIN parsers THEN parsers[keyword] ELSE atRuleParser]

\* CSSParser.addAtRuleParser: this.atRuleParsers[atRuleParser.keyword] = atRuleParser
addAtRuleParser(parsers, atRuleParser) ==
    [keyword \in DOMAIN parsers \cup {atRuleParser.keyword} |->
        IF keyword = atRuleParser.keyword THEN atRuleParser ELSE parsers[keyword]]

\* what the properties that {} inherits from Object.prototype do when they are
\* invoked as  property.call(parser, rule)
ObjectPrototype(name) ==
    CASE name = <<"c", "o", "n", "s", "t", "r", "u", "c", "t", "o", "r">> -> "returns its argument"
      [] name \in {<<"t", "o", "S", "t", "r", "i", "n", "g">>, <<"t", "o", "L", "o", "c", "a", "l", "e", "S", "t", "r", "i", "n", "g">>} -> "returns [object Object]"
      [] name = <<"v", "a", "l", "u", "e", "O", "f">> -> "returns this"
      [] name \in {<<"h", "a", "s", "O", "w", "n", "P", "r", "o", "p", "e", "r", "t", "y">>, <<"i", "s", "P", "r", "o", "t", "o", "t", "y", "p", "e", "O", "f">>, <<"p", "r", "o", "p", "e", "r", "t", "y", "I", "s", "E", "n", "u", "m", "e", "r", "a", "b", "l", "e">>} -> "returns false"
      [] name \in {<<"_", "_", "l", "o", "o", "k", "u", "p", "G", "e", "t", "t", "e", "r", "_", "_">>, <<"_", "_", "l", "o", "o", "k", "u", "p", "S", "e", "t", "t", "e", "r", "_", "_">>} -> "returns undefined"
      [] name = <<"_", "_", "p", "r", "o", "t", "o", "_", "_">> -> "is not a function"
      [] name \in {<<"_", "_", "d", "e", "f", "i", "n", "e", "G", "e", "t", "t", "e", "r", "_", "_">>,
                   <<"_", "_", "d", "e", "f", "i", "n", "e", "S", "e", "t", "t", "e", "r", "_", "_">>} -> "throws"
      [] OTHER -> "absent"

\* this.atRuleParsers[name]: an own property, else one inherited by the object literal
atRuleParserOf(parsers, name) ==
    IF name \in DOMAIN parsers THEN parsers[name]
    ELSE IF ObjectPrototype(name) /= "absent" THEN AtRuleParser("Object.prototype", name)
    ELSE Undefined

\* what Object.prototype[keyword].call(this, rule) returns or throws
callObjectPrototype(does, rule, s) ==
    CASE does = "returns its argument" -> Value(rule, s)
      [] does = "returns [object Object]" ->
            Value([type |-> "string", source |-> <<"[", "o", "b", "j", "e", "c", "t", " ", "O", "b", "j", "e", "c", "t", "]">>], s)
      [] does = "returns this" -> Value([type |-> "CSSParser"], s)
      [] does = "is not a function" ->
            Value(Throw("TypeError: atRuleParser.call is not a function"), s)
      [] does = "throws" -> Value(Throw("TypeError: Expecting function"), s)
      [] OTHER -> Value(Undefined, s)

\* atRuleParser.call(this, rule)
callAtRuleParser(t, atRuleParser, rule, flag, s) ==
    CASE atRuleParser.fn = "importParser" -> Value(importParser(rule), s)
      [] atRuleParser.fn = "keyframesParser" -> keyframesParser(t, rule, flag, s)
      [] atRuleParser.fn = "callerReturnsObject" ->
            Value([type |-> "caller", name |-> rule.name], s)
      [] atRuleParser.fn = "callerReturnsNothing" -> Value(Undefined, s)
      [] atRuleParser.fn = "Object.prototype" ->
            callObjectPrototype(ObjectPrototype(atRuleParser.keyword), rule, s)

\* what the callback of the forEach pushes for rule: [value, atRuleParser], atRuleParser
\* the handler it called, undefined if it called none
forEachCallback(t, parsers, rule, s) ==
    IF rule.type = "qualified-rule"
    THEN [value |-> interpretAsStyleRule(t, rule, s).value, atRuleParser |-> Undefined]
    ELSE IF rule.type = "at-rule"
    THEN Let({ IF atRuleParser /= Undefined
               THEN [value |-> callAtRuleParser(t, atRuleParser, rule, TRUE, s).value,
                     atRuleParser |-> atRuleParser]
               ELSE [value |-> Undefined, atRuleParser |-> Undefined]
               : atRuleParser \in {atRuleParserOf(parsers, rule.name)} })
    ELSE [value |-> Undefined, atRuleParser |-> Undefined]

\* handlerCalls with the call that the callback made for the k-th rule, if it made one
logCall(handlerCalls, atRuleParser, k) ==
    IF atRuleParser = Undefined THEN handlerCalls
    ELSE Append(handlerCalls, [atRuleParser |-> atRuleParser, rule |-> k])

\* the forEach of parseACSSStylesheet from the k-th rule on; calls logs each
\* atRuleParser.call with the index of its rule
RECURSIVE forEachRule(_, _, _, _, _, _, _)
forEachRule(t, parsers, stylesheetRules, k, rules, handlerCalls, s) ==
    IF k > Len(stylesheetRules)
    THEN [rules |-> rules, calls |-> handlerCalls, raised |-> "none", s |-> s]
    ELSE Let({ IF Thrown(pushed.value)
               THEN [rules |-> rules, calls |-> logCall(handlerCalls, pushed.atRuleParser, k),
                     raised |-> pushed.value.message, s |-> s]
               ELSE forEachRule(t, parsers, stylesheetRules, k + 1,
                                pushIf(rules, pushed.value),
                                logCall(handlerCalls, pushed.atRuleParser, k), s)
               : pushed \in {forEachCallback(t, parsers, stylesheetRules[k], s)} })

\* CSSParser.parseACSSStylesheet after the reset(text) of its parseAStylesheet call, on
\* the token source s of the instance
parseACSSStylesheetOn(t, parsers, s) ==
    Let({ IF ThrownList(parsed.value)
          THEN [rules |-> <<>>, calls |-> <<>>, raised |-> parsed.value[1].message,
                s |-> parsed.s]
          ELSE forEachRule(t, parsers, parsed.value, 1, <<>>, <<>>, parsed.s)
          : parsed \in {parseAStylesheetOn(t, s)} })

\* CSSParser.parseACSSStylesheet on a new instance
parseACSSStylesheet(t, parsers) == parseACSSStylesheetOn(t, parsers, TextSource(0, -1))

-----------------------------------------------------------------------------
(* A CSSParser in use: addAtRuleParser calls, then parseACSSStylesheet(text) *)

CssMaxRules == 3
CssMaxAdds == 2

CssFragments == {<<"@", "i", "m", "p", "o", "r", "t", " ", "a", ";">>,
                 <<"a", "{", "a", ":", "a", "}">>,
                 <<"@", "k", "e", "y", "f", "r", "a", "m", "e", "s", " ", "a", "{", "a", "{", "a", ":", "a", "}", "}">>,
                 <<"@", "k", "e", "y", "f", "r", "a", "m", "e", "s", " ", "a", ";">>,
                 <<"@", "k", "e", "y", "f", "r", "a", "m", "e", "s", " ", "a">>,
                 <<"@", "c", "o", "n", "s", "t", "r", "u", "c", "t", "o", "r", ";">>,
                 <<"@", "x", ";">>,
                 <<"@", "i", "m", "p", "o", "r", "t", " ", "u", "r", "l", "(", "\\", "a", ")", ";">>}

InitCss == \E t \in Concatenations(CssFragments, CssMaxRules) :
              reset(t) /\ pc = "setup" /\ IdleParser

\* parser.addAtRuleParser(atRuleParser)
AddAtRuleParser ==
    /\ pc = "setup"
    /\ Len(added) < CssMaxAdds
    /\ \E atRuleParser \in AtRuleParsers :
          /\ atRuleParsers' = addAtRuleParser(atRuleParsers, atRuleParser)
          /\ added' = Append(added, atRuleParser)
    /\ UNCHANGED <<text, nextInputCodePointIndex, prevInputCodePointIndex, tokens, spans, pc,
                   stylesheet, raised, calls, consumeATokenFn, startFn, endFn, frames, active,
                   lastToken, lastCall, topLevelFlag, lineFields, history>>

\* parser.parseACSSStylesheet(text)
ParseACSSStylesheet ==
    /\ pc = "setup"
    /\ topLevelFlag' = TRUE
    /\ \E r \in {parseACSSStylesheet(text, atRuleParsers)} :
          /\ nextInputCodePointIndex' = r.s.next
          /\ prevInputCodePointIndex' = r.s.prev
          /\ stylesheet' = IF r.raised = "none" THEN r.rules ELSE stylesheet
          /\ calls' = r.calls
          /\ raised' = r.raised
    /\ pc' = "done"
    /\ UNCHANGED <<text, tokens, spans, atRuleParsers, added, consumeATokenFn, startFn,
                   endFn, frames, active, lastToken, lastCall, lineFields, history>>

NextCss == AddAtRuleParser \/ ParseACSSStylesheet
SpecCss == InitCss /\ [][NextCss]_vars

-----------------------------------------------------------------------------
(* Claims about parseACSSStylesheet *)

\* C1 as stated: with importParser and keyframesParser registered, parseACSSStylesheet
\* raises nothing but the error for an escape inside an unquoted url( ), whether an
\* at-rule of a registered keyword ends with a block, with ";" or at the end of the text
C1_OnlyUrlEscapeRaises ==
    (/\ pc = "done"
     /\ DOMAIN atRuleParsers = {ExportedImportParser.keyword, ExportedKeyframesParser.keyword}
     /\ atRuleParsers[ExportedImportParser.keyword] = ExportedImportParser
     /\ atRuleParsers[ExportedKeyframesParser.keyword] = ExportedKeyframesParser)
    => raised \in {"none", "Escaping not yet supported!"}

\* C3 as stated: the returned rules are style rules and values returned by handlers that
\* were installed through addAtRuleParser, and no at-rule reaches anything else
C3_OnlyInstalledHandlersContribute ==
    pc = "done" =>
        /\ \A k \in 1..Len(calls) : \E i \in 1..Len(added) : calls[k].atRuleParser = added[i]
        /\ \A k \in 1..Len(stylesheet) :
              stylesheet[k].type \in {"rule", "import", "keyframes", "caller"}

\* the handler that the addAtRuleParser calls so far leave under a keyword
lastAdded(keyword) ==
    LET last == CHOOSE i \in 1..Len(added) :
                    /\ added[i].keyword = keyword
                    /\ \A j \in (i + 1)..Len(added) : added[j].keyword /= keyword
    IN  added[last]

\* what the rules from the k-th on put in the output: the style rule of a qualified rule,
\* the non-empty result of the handler registered under the name of an at-rule
RECURSIVE expectedRules(_, _)
expectedRules(stylesheetRules, k) ==
    LET rule == stylesheetRules[k]
        s == TextSource(0, 0)
        value == IF rule.type = "qualified-rule" THEN interpretAsStyleRule(text, rule, s).value
                 ELSE IF rule.name \in DOMAIN atRuleParsers
                 THEN callAtRuleParser(text, atRuleParsers[rule.name], rule, TRUE, s).value
                 ELSE Undefined
    IN  IF k > Len(stylesheetRules) THEN <<>>
        ELSE pushIf(<<>>, value) \o expectedRules(stylesheetRules, k + 1)

isInstalledCall(call) == call.atRuleParser.fn /= "Object.prototype"
isStyleOrHandlerResult(rule) == rule.type \in {"rule", "import", "keyframes", "caller"}

\* C4: a later addAtRuleParser replaces the handler of its keyword; parseACSSStylesheet
\* passes each top-level at-rule with a registered name once, in source order, to the
\* handler registered under that name (up to the rule whose handler raised, if one did),
\* and the style rules and non-empty handler results are in the output in source order
C4_LastHandlerCalledOncePerAtRuleInOrder ==
    /\ DOMAIN atRuleParsers = {added[i].keyword : i \in 1..Len(added)}
    /\ \A keyword \in DOMAIN atRuleParsers : atRuleParsers[keyword] = lastAdded(keyword)
    /\ (pc = "done" /\ raised /= "Escaping not yet supported!") =>
          \A top \in {parseAStylesheet(text).value} :
          \A registered \in {{k \in 1..Len(top) : /\ top[k].type = "at-rule"
                                                  /\ top[k].name \in DOMAIN atRuleParsers}} :
          \A installed \in {SelectSeq(calls, isInstalledCall)} :
          \A passed \in {{installed[j].rule : j \in 1..Len(installed)}} :
              /\ \A j \in 1..Len(installed) :
                    /\ installed[j].rule \in registered
                    /\ installed[j].atRuleParser = lastAdded(top[installed[j].rule].name)
              /\ \A j \in 1..(Len(installed) - 1) : installed[j].rule < installed[j + 1].rule
              /\ \A k \in registered : (\E later \in passed : k <= later) => k \in passed
              /\ raised = "none" =>
                    /\ passed = registered
                    /\ SelectSeq(stylesheet, isStyleOrHandlerResult) = expectedRules(top, 1)

\* C4 witness: a keyword was registered twice with different handlers, and a parse
\* returned a style rule and a handler result after passing at-rules to handlers
C4_Witness ==
    /\ pc = "done"
    /\ raised = "none"
    /\ \E i, j \in 1..Len(added) : i < j /\ added[i].keyword = added[j].keyword
                                   /\ added[i] /= added[j]
    /\ Len(SelectSeq(calls, isInstalledCall)) >= 2
    /\ \E k \in 1..Len(stylesheet) : stylesheet[k].type = "rule"
    /\ \E k \in 1..Len(stylesheet) : stylesheet[k].type \in {"import", "caller"}

-----------------------------------------------------------------------------
(* Positions: Tokenizer.start, Tokenizer.end and the line bookkeeping *)

\* the line, lineStartIndex and lineEndIndex fields
LineState(ln, startIndex, endIndex) ==
    [line |-> ln, lineStartIndex |-> startIndex, lineEndIndex |-> endIndex]

\* the three fields as reset(text) leaves them
ResetLineState == LineState(1, 0, -1)

RECURSIVE indexOf(_, _, _)
\* this.text.indexOf(ch, from), then the text length in place of -1
indexOf(t, ch, from) ==
    IF from >= Len(t) THEN Len(t)
    ELSE IF charAt(t, from) = ch THEN from
    ELSE indexOf(t, ch, from + 1)

RECURSIVE readNextLineLoop(_, _, _)
\* the while loop of readNextLine; an index past the end of the text never leaves it
readNextLineLoop(t, l, index) ==
    IF index > l.lineEndIndex /\ l.lineEndIndex < Len(t)
    THEN readNextLineLoop(t, LineState(l.line + 1, l.lineEndIndex + 1,
                                       indexOf(t, "\n", l.lineEndIndex + 1)), index)
    ELSE l

\* Tokenizer.readNextLine on the bookkeeping l: the position and the bookkeeping after
readNextLine(t, l, index) ==
    Let({ [position |-> [line |-> after.line, column |-> index - after.lineStartIndex + 1],
           lines |-> after]
          : after \in {readNextLineLoop(t,
                           IF l.lineEndIndex = -1
                           THEN LineState(l.line, l.lineStartIndex, indexOf(t, "\n", 0))
                           ELSE l, index)} })

\* Tokenizer.start / Tokenizer.end on a text source
start(t, l, s) == readNextLine(t, l, s.prev)
end(t, l, s) == readNextLine(t, l, s.next)

-----------------------------------------------------------------------------
(* CSSParser.with(inputTokens, action) step by step: the call installs its    *)
(* closure, action calls consumeAToken, start, end and with, and the finally *)
(* block runs when action returns or when an exception passes through.       *)

WithMaxDepth == 3

WithTexts == {<<"a", " ", "b">>, <<"a", ":", "b", ";">>}

IdentA == [type |-> "ident", source |-> <<"a">>, name |-> <<"a">>]
IdentB == [type |-> "ident", source |-> <<"b">>, name |-> <<"b">>]
WithInputTokens == {<<>>, <<IdentA, Simple(<<":">>)>>, <<IdentB>>}

NotSupported == "Source location when working 'with' sub input streams is not supported."

InitWith == \E t \in WithTexts : reset(t) /\ pc = "run" /\ IdleParser

\* this.consumeAToken = () => inputTokens[i++]; the closure with its i
closure(inputTokens, i) == [kind |-> "list", inputTokens |-> inputTokens, i |-> i]

\* the finally block of with() restoring consumeAToken as it restores start and end
superConsumeAToken(frame) == [kind |-> "text"]

\* the finally block of with(): this.consumeAToken = stackedConsumeAToken
stackedConsumeAToken(frame) == frame.stackedConsumeAToken

withUnchanged == UNCHANGED <<text, tokens, spans, stylesheet, atRuleParsers, added, calls,
                             topLevelFlag, history>>

\* this.start() or this.end() of the Tokenizer: readNextLine moves the line bookkeeping
\* (on an index past the end of the text its loop never ends, and no state follows);
\* while lineEndIndex is undefined it is neither -1 nor below any index, so the
\* bookkeeping stays as it is
superPosition(index) ==
    IF isUndefined(lineEndIndex)
    THEN UNCHANGED lineFields
    ELSE /\ index <= Len(text)
         /\ \E r \in {readNextLine(text, LineState(line, lineStartIndex, lineEndIndex), index)} :
               /\ line' = r.lines.line
               /\ lineStartIndex' = r.lines.lineStartIndex
               /\ lineEndIndex' = r.lines.lineEndIndex

\* a call of with(inputTokens, action) up to the point where action starts
With ==
    /\ pc = "run"
    /\ Len(frames) < WithMaxDepth
    /\ \E inputTokens \in WithInputTokens :
          /\ frames' = Append(frames, [stackedConsumeAToken |-> consumeATokenFn])
          /\ consumeATokenFn' = closure(inputTokens, 0)
          /\ active' = Append(active, [inputTokens |-> inputTokens, read |-> 0,
                                       before |-> <<nextInputCodePointIndex,
                                                    prevInputCodePointIndex, line,
                                                    lineStartIndex, lineEndIndex>>])
    /\ startFn' = "throws"
    /\ endFn' = "throws"
    /\ lastCall' = "with"
    /\ UNCHANGED <<nextInputCodePointIndex, prevInputCodePointIndex, pc, raised, lastToken,
                   lineFields>>
    /\ withUnchanged

\* the ghost record of the innermost sub-stream after one more read
readOne(streams) ==
    IF streams = <<>> THEN streams
    ELSE [streams EXCEPT ![Len(streams)].read = @ + 1]

\* a consumeAToken() that reads the text whatever with() installed
ConsumeATokenOfText ==
    /\ pc = "run"
    /\ \E r \in {read(text, TextSource(nextInputCodePointIndex, prevInputCodePointIndex))} :
          /\ lastToken' = r.token
          /\ nextInputCodePointIndex' = r.s.next
          /\ prevInputCodePointIndex' = r.s.prev
          /\ raised' = IF Thrown(r.token) THEN r.token.message ELSE raised
          /\ pc' = IF Thrown(r.token) /\ frames /= <<>> THEN "unwind" ELSE pc
    /\ lastCall' = "consumeAToken"
    /\ active' = readOne(active)
    /\ UNCHANGED <<consumeATokenFn, startFn, endFn, frames, lineFields>>
    /\ withUnchanged

\* this.consumeAToken() called by the code that is running
ConsumeAToken ==
    /\ pc = "run"
    /\ consumeATokenFn.kind = "list" => consumeATokenFn.i <= Len(consumeATokenFn.inputTokens)
    /\ \E r \in {read(text, IF consumeATokenFn.kind = "text"
                            THEN TextSource(nextInputCodePointIndex, prevInputCodePointIndex)
                            ELSE consumeATokenFn)} :
          /\ lastToken' = r.token
          /\ IF consumeATokenFn.kind = "text"
             THEN /\ nextInputCodePointIndex' = r.s.next
                  /\ prevInputCodePointIndex' = r.s.prev
                  /\ UNCHANGED consumeATokenFn
             ELSE /\ consumeATokenFn' = r.s
                  /\ UNCHANGED <<nextInputCodePointIndex, prevInputCodePointIndex>>
          /\ raised' = IF Thrown(r.token) THEN r.token.message ELSE raised
          /\ pc' = IF Thrown(r.token) /\ frames /= <<>> THEN "unwind" ELSE pc
    /\ lastCall' = "consumeAToken"
    /\ active' = readOne(active)
    /\ UNCHANGED <<startFn, endFn, frames, lineFields>>
    /\ withUnchanged

\* this.start() or this.end() called by the code that is running
CallPosition ==
    \E query \in {"start", "end"} :
        LET fn == IF query = "start" THEN startFn ELSE endFn
        IN  /\ pc = "run"
            /\ lastCall' = query
            /\ raised' = IF fn = "throws" THEN NotSupported ELSE "none"
            /\ pc' = IF fn = "throws" /\ frames /= <<>> THEN "unwind" ELSE pc
            /\ IF fn = "throws" THEN UNCHANGED lineFields
               ELSE superPosition(IF query = "start" THEN prevInputCodePointIndex
                                  ELSE nextInputCodePointIndex)
            /\ UNCHANGED <<nextInputCodePointIndex, prevInputCodePointIndex, consumeATokenFn,
                           startFn, endFn, frames, active, lastToken>>
            /\ withUnchanged

\* the finally block of the innermost with()
finally ==
    /\ consumeATokenFn' = stackedConsumeAToken(frames[Len(frames)])
    /\ startFn' = "super"
    /\ endFn' = "super"
    /\ frames' = SubSeq(frames, 1, Len(frames) - 1)
    /\ active' = SubSeq(active, 1, Len(active) - 1)

\* action returns: the innermost with() runs its finally block and returns
Return ==
    /\ pc = "run"
    /\ frames /= <<>>
    /\ finally
    /\ lastCall' = "return"
    /\ UNCHANGED <<nextInputCodePointIndex, prevInputCodePointIndex, pc, raised, lastToken,
                   lineFields>>
    /\ withUnchanged

\* an exception passes through the innermost with(): its finally block runs, and the
\* exception goes on to the caller
Unwind ==
    /\ pc = "unwind"
    /\ frames /= <<>>
    /\ finally
    /\ lastCall' = "throw"
    /\ pc' = IF Len(frames) = 1 THEN "run" ELSE "unwind"
    /\ UNCHANGED <<nextInputCodePointIndex, prevInputCodePointIndex, raised, lastToken,
                   lineFields>>
    /\ withUnchanged

NextWith == With \/ ConsumeAToken \/ CallPosition \/ Return \/ Unwind
SpecWith == InitWith /\ [][NextWith]_vars

-----------------------------------------------------------------------------
(* Claims about with() *)

\* the token that the sub-stream st yielded last
lastRead(st) == IF st.read <= Len(st.inputTokens) THEN st.inputTokens[st.read] ELSE Undefined

\* C5: on every exit path and at every depth the token source is the one of the innermost
\* with() that is still running, at its first unread token, and the text cursor when none
\* is running; consumeAToken yields that source's next token
C5_SourceRestoredOnEveryExit ==
    /\ active = <<>> => consumeATokenFn = [kind |-> "text"]
    /\ active /= <<>> =>
          consumeATokenFn = closure(active[Len(active)].inputTokens, active[Len(active)].read)
    /\ Len(frames) = Len(active)
    /\ (lastCall = "consumeAToken" /\ active /= <<>>) => lastToken = lastRead(active[Len(active)])
    /\ (lastCall = "consumeAToken" /\ active = <<>>) =>
          /\ lastToken = consumeAToken(text, prevInputCodePointIndex).token
          /\ nextInputCodePointIndex = consumeAToken(text, prevInputCodePointIndex).next

\* C5 witness: an outer with() that had read one token is running again after an inner
\* with() returned, and after an earlier with() was left by an exception
C5_Witness ==
    /\ lastCall = "return"
    /\ raised = NotSupported
    /\ Len(frames) = 1
    /\ active[1].read = 1
    /\ consumeATokenFn = closure(<<IdentA, Simple(<<":">>)>>, 1)

\* C6 as stated: while any with() is running, start() and end() raise
C6_PositionQueriesRaiseInsideWith ==
    frames /= <<>> => (startFn = "throws" /\ endFn = "throws")

-----------------------------------------------------------------------------
(* The tree of parseAStylesheet written out again and parsed again *)

TreeMaxFragments == 4

TreeFragments == {<<"@", "x">>, <<" ">>, <<"p">>, <<"{">>, <<"}">>, <<";">>, <<"f", "(">>,
                  <<")">>, <<"/", "*", "*", "/">>}

InitTree == \E t \in Concatenations(TreeFragments, TreeMaxFragments) :
               reset(t) /\ pc = "parse" /\ IdleParser

SpecTree == InitTree /\ [][ParseAStylesheet]_vars

\* toString over the component values of a rule in order: at-keyword, prelude, block
stringifyRule(rule) ==
    (IF rule.type = "at-rule" THEN <<"@">> \o rule.name ELSE <<>>)
        \o render(rule.prelude)
        \o (IF rule.block = Undefined THEN <<>> ELSE toString(rule.block))

\* toString over the component values of every rule of the tree
stringify(rules) == join([k \in 1..Len(rules) |-> stringifyRule(rules[k])])

RECURSIVE collapseWhitespace(_)
\* s with every run of whitespace replaced by one space
collapseWhitespace(s) ==
    IF s = <<>> THEN <<>>
    ELSE IF s[1] \in RegexSpace
    THEN <<" ">> \o collapseWhitespace(trimStart(s))
    ELSE <<s[1]>> \o collapseWhitespace(Tail(s))

\* C11 as stated: the tree of parseAStylesheet, written out with toString over the
\* component values of its rules in order and whitespace collapsed, parses again into
\* the same tree
C11_StringifiedTreeParsesToSameTree ==
    (pc = "done" /\ raised = "none") =>
        parseAStylesheet(collapseWhitespace(stringify(stylesheet))).value = stylesheet

-----------------------------------------------------------------------------
(* parseACSSStylesheet(text) on a CSSParser that has the exported handlers *)

\* a CSSParser after addAtRuleParser(importParser); addAtRuleParser(keyframesParser),
\* about to parse t
CssParserFor(t) ==
    /\ reset(t)
    /\ pc = "setup"
    /\ stylesheet = <<>>
    /\ atRuleParsers = addAtRuleParser(addAtRuleParser(<<>>, ExportedImportParser),
                                       ExportedKeyframesParser)
    /\ added = <<ExportedImportParser, ExportedKeyframesParser>>
    /\ calls = <<>>
    /\ consumeATokenFn = [kind |-> "text"]
    /\ startFn = "super"
    /\ endFn = "super"
    /\ lastCall = "none"
    /\ frames = <<>>
    /\ active = <<>>
    /\ topLevelFlag = FALSE
    /\ history = <<>>

KeyframesMaxFragments == 5

KeyframesFragments == {<<"a">>, <<",">>, <<" ">>, <<"{", "}">>, <<"@", "x", ";">>}

\* @keyframes a{ ... }
InitKeyframes ==
    \E t \in Concatenations(KeyframesFragments, KeyframesMaxFragments) :
        CssParserFor(<<"@", "k", "e", "y", "f", "r", "a", "m", "e", "s", " ", "a", "{">>
                         \o t \o <<"}">>)

SpecKeyframes == InitKeyframes /\ [][ParseACSSStylesheet]_vars

RECURSIVE commaGroups(_, _)
\* the non-empty groups of component values between the commas of values; group is the
\* group that is being gathered
commaGroups(values, group) ==
    IF values = <<>> THEN (IF group = <<>> THEN <<>> ELSE <<group>>)
    ELSE IF isSimple(Head(values), <<",">>)
    THEN (IF group = <<>> THEN <<>> ELSE <<group>>) \o commaGroups(Tail(values), <<>>)
    ELSE commaGroups(Tail(values), Append(group, Head(values)))

\* the trimmed stringifications of the comma-separated groups of a prelude
groupStrings(prelude) ==
    [k \in 1..Len(commaGroups(prelude, <<>>)) |->
        trim(render(commaGroups(prelude, <<>>)[k]))]

isQualifiedRule(rule) == rule.type = "qualified-rule"

\* C12 as stated: for a @keyframes at-rule with a block the handler returns one keyframe
\* per qualified rule of the block, in order, whose values are the trimmed
\* stringifications of the comma-separated groups of that rule's prelude, one entry per
\* group and none with a comma in it
C12_KeyframeValuesAreCommaGroups ==
    (pc = "done" /\ raised = "none") =>
        \A top \in {parseAStylesheet(text).value} :
            /\ Len(stylesheet) = Len(top)
            /\ \A k \in 1..Len(top) :
                  \A inner \in {SelectSeq(consumeAListOfRules(text, TRUE,
                                              ListSource(top[k].block.values)).value,
                                          isQualifiedRule)} :
                      /\ stylesheet[k].type = "keyframes"
                      /\ Len(stylesheet[k].keyframes) = Len(inner)
                      /\ \A j \in 1..Len(inner) :
                            /\ stylesheet[k].keyframes[j].values = groupStrings(inner[j].prelude)
                            /\ \A v \in 1..Len(stylesheet[k].keyframes[j].values) :
                                  \A c \in 1..Len(stylesheet[k].keyframes[j].values[v]) :
                                      stylesheet[k].keyframes[j].values[v][c] /= ","

-----------------------------------------------------------------------------
(* interpretAsStyleRule: the selectors of a style rule *)

SelectorsMaxFragments == 6

SelectorsFragments == {<<"a">>, <<",">>, <<" ">>, <<"f", "(">>, <<")">>, <<"[">>}

\* a prelude, then {}
InitSelectors ==
    \E t \in Concatenations(SelectorsFragments, SelectorsMaxFragments) :
        CssParserFor(t \o <<"{", "}">>)

SpecSelectors == InitSelectors /\ [][ParseACSSStylesheet]_vars

RECURSIVE hasTopLevelComma(_, _)
\* a comma of s, read from its first character at nesting depth, outside ( ), [ ] and { }
hasTopLevelComma(s, depth) ==
    IF s = <<>> THEN FALSE
    ELSE IF s[1] \in {"(", "[", "{"} THEN hasTopLevelComma(Tail(s), depth + 1)
    ELSE IF s[1] \in {")", "]", "}"} THEN hasTopLevelComma(Tail(s), Max(depth - 1, 0))
    ELSE IF s[1] = "," /\ depth = 0 THEN TRUE
    ELSE hasTopLevelComma(Tail(s), depth)

isNonEmpty(string) == string /= <<>>

\* C13: the selectors of a style rule are the trimmed stringifications of the groups
\* between the commas that are direct members of the prelude, in source order, without
\* the empty ones; none is empty, starts or ends with whitespace, or has a comma outside
\* a function or block
C13_SelectorsAreTrimmedTopLevelGroups ==
    (pc = "done" /\ raised = "none") =>
        \A top \in {parseAStylesheet(text).value} :
            /\ Len(stylesheet) = Len(top)
            /\ \A k \in 1..Len(top) :
                  /\ stylesheet[k].type = "rule"
                  /\ stylesheet[k].selectors
                        = SelectSeq(groupStrings(top[k].prelude), isNonEmpty)
                  /\ \A i \in 1..Len(stylesheet[k].selectors) :
                        \A selector \in {stylesheet[k].selectors[i]} :
                            /\ selector /= <<>>
                            /\ selector[1] \notin RegexSpace
                            /\ selector[Len(selector)] \notin RegexSpace
                            /\ ~hasTopLevelComma(selector, 0)

\* C13 witness: a style rule with two selectors, one of them with a comma inside a
\* function, from a prelude that also had an empty group and whitespace around a group
C13_Witness ==
    /\ pc = "done"
    /\ \E k \in 1..Len(stylesheet) :
          /\ stylesheet[k].type = "rule"
          /\ Len(stylesheet[k].selectors) = 2
          /\ \E i \in 1..2 : \E c \in 1..Len(stylesheet[k].selectors[i]) :
                stylesheet[k].selectors[i][c] = ","
    /\ \E i \in 1..(Len(text) - 1) : text[i] = "," /\ text[i + 1] \in {",", " "}

-----------------------------------------------------------------------------
(* consumeADeclaration: the value of a declaration and its important flag *)

DeclarationMaxFragments == 4

DeclarationFragments == {<<"a">>, <<" ">>, <<"!">>,
                         <<"i", "m", "p", "o", "r", "t", "a", "n", "t">>,
                         <<"I", "m", "p", "o", "r", "t", "a", "n", "t">>}

\* a{a: ... }
InitDeclaration ==
    \E t \in Concatenations(DeclarationFragments, DeclarationMaxFragments) :
        CssParserFor(<<"a", "{", "a", ":">> \o t \o <<"}">>)

SpecDeclaration == InitDeclaration /\ [][ParseACSSStylesheet]_vars

\* toks without the whitespace tokens
withoutWhitespace(toks) == SelectSeq(toks, LAMBDA tok : ~isWhitespaceToken(tok))

\* the last two non-whitespace tokens are the delim ! and an ident that matches
\* important ASCII case-insensitively
endsWithImportant(toks) ==
    \A nw \in {withoutWhitespace(toks)} :
        /\ Len(nw) >= 2
        /\ nw[Len(nw) - 1].type = "delim"
        /\ nw[Len(nw) - 1].source = <<"!">>
        /\ nw[Len(nw)].type = "ident"
        /\ toLowerCase(nw[Len(nw)].name) = <<"i", "m", "p", "o", "r", "t", "a", "n", "t">>

RECURSIVE beforeImportant(_)
\* toks up to the delim ! of a trailing ! important
beforeImportant(toks) ==
    IF toks[Len(toks)].type = "delim" THEN SubSeq(toks, 1, Len(toks) - 1)
    ELSE beforeImportant(SubSeq(toks, 1, Len(toks) - 1))

\* the important flag of a declaration; a declaration without the property counts as
\* one whose flag is false
isImportant(declaration) == "important" \in DOMAIN declaration /\ declaration.important

\* C14 as stated: a value that ends with ! important (in any letter case) is returned
\* without the two tokens and with important = true; any other declaration has
\* important false and the trimmed stringification of every token after the colon
C14_ImportantIsStrippedAndFlagged ==
    (pc = "done" /\ raised = "none") =>
        \A top \in {parseAStylesheet(text).value} :
            \A k \in 1..Len(top) :
                \A toks \in {SubSeq(top[k].block.values, 3, Len(top[k].block.values))} :
                \A declaration \in {stylesheet[k].declarations[1]} :
                    IF endsWithImportant(toks)
                    THEN /\ isImportant(declaration)
                         /\ declaration.value = trim(render(beforeImportant(toks)))
                    ELSE /\ ~isImportant(declaration)
                         /\ declaration.value = trim(render(toks))

-----------------------------------------------------------------------------
(* Expected positions of the rules of a stylesheet *)

RECURSIVE atRuleSpans(_, _, _, _)
\* per rule of parseAStylesheet(t): the source before its first token was read and the
\* source after its last token was read, with the rule itself
atRuleSpans(t, found, l, s) ==
    Let({ IF Thrown(r.token) \/ ~Truthy(r.token) THEN found
          ELSE IF \/ isWhitespaceToken(r.token)
                  \/ isSimple(r.token, <<"<", "!", "-", "-">>)
                  \/ isSimple(r.token, <<"-", "-", ">">>)
          THEN atRuleSpans(t, found, l, r.s)
          ELSE Let({ IF Thrown(rule.value) THEN found
                     ELSE Let({ Let({ atRuleSpans(t,
                                         IF rule.value = Null THEN found
                                         ELSE Append(found, [rule |-> rule.value,
                                                             start |-> from.position,
                                                             end |-> to.position]),
                                         to.lines, rule.s)
                                      : to \in {end(t, from.lines, rule.s)} })
                                : from \in {start(t, l, r.s)} })
                     : rule \in {IF r.token.type = "atKeyword"
                                 THEN consumeAnAtRule(t, r.token, r.s)
                                 ELSE consumeAQualifiedRule(t, r.token, r.s)} })
          : r \in {read(t, s)} })

PositionMaxFragments == 5

PositionFragments == {<<"@", "x">>, <<" ">>, <<"\n">>, <<"{">>, <<"}">>, <<";">>, <<"p">>}

InitPosition == \E t \in Concatenations(PositionFragments, PositionMaxFragments) :
                   reset(t) /\ pc = "parse" /\ IdleParser

SpecPosition == InitPosition /\ [][ParseAStylesheet]_vars

\* C15 as stated: every at-rule of parseAStylesheet(text) has a position; its start is
\* the 1-based line and column of the @ of its at-keyword and its end is the line and
\* column just after the last token consumed for it
C15_AtRulesCarryPosition ==
    (pc = "done" /\ raised = "none") =>
        \A expected \in {atRuleSpans(text, <<>>, ResetLineState, TextSource(0, -1))} :
            /\ Len(expected) = Len(stylesheet)
            /\ \A k \in 1..Len(stylesheet) :
                  stylesheet[k].type = "at-rule" =>
                      /\ "position" \in DOMAIN stylesheet[k]
                      /\ stylesheet[k].position.start = expected[k].start
                      /\ stylesheet[k].position.end = expected[k].end

-----------------------------------------------------------------------------
(* One instance used for several calls of tokenize, parseAStylesheet and     *)
(* parseACSSStylesheet, with start() and end() queried between the calls.    *)
(* Each call is its reset(text) and then the rest of the method.             *)

ReuseMaxCalls == 3

ReuseTexts == {<<"a", "{", "}", "\n", "@", "x", ";">>,
               <<"u", "r", "l", "(", "\\", "a", ")">>,
               <<"@", "k", "e", "y", "f", "r", "a", "m", "e", "s", " ", "a", "{", "a", "{", "}", "}">>,
               <<"@", "k", "e", "y", "f", "r", "a", "m", "e", "s", ";">>,
               <<"\n", "/", "*", "*", "/">>}

Operations == {"tokenize", "parseAStylesheet", "parseACSSStylesheet"}

\* a new CSSParser with the exported handlers added and no call made yet: the
\* constructor assigns none of the Tokenizer fields, so text, the cursor and the line
\* bookkeeping are undefined until the first reset(text) (prevInputCodePointIndex,
\* which reset leaves alone, is -1 while undefined)
InitReuse ==
    /\ text = Undefined
    /\ nextInputCodePointIndex = Undefined
    /\ prevInputCodePointIndex = -1
    /\ line = Undefined
    /\ lineStartIndex = Undefined
    /\ lineEndIndex = Undefined
    /\ tokens = <<>>
    /\ spans = <<>>
    /\ raised = "none"
    /\ lastToken = Undefined
    /\ stylesheet = <<>>
    /\ calls = <<>>
    /\ consumeATokenFn = [kind |-> "text"]
    /\ startFn = "super"
    /\ endFn = "super"
    /\ lastCall = "none"
    /\ frames = <<>>
    /\ active = <<>>
    /\ topLevelFlag = FALSE
    /\ history = <<>>
    /\ atRuleParsers = addAtRuleParser(addAtRuleParser(<<>>, ExportedImportParser),
                                       ExportedKeyframesParser)
    /\ added = <<ExportedImportParser, ExportedKeyframesParser>>
    /\ pc = "idle"

\* the cursor and line fields of the instance
Fields(t, n, p, l) == [text |-> t, next |-> n, prev |-> p, lines |-> l]

\* a reset that leaves the cursor where the last call left it
resetKeepingCursor(f, t) == [f EXCEPT !.text = t, !.lines = ResetLineState]
\* Tokenizer.reset(text) on the fields f
resetFields(f, t) == [f EXCEPT !.text = t, !.next = 0, !.lines = ResetLineState]

\* what this.consumeAToken reads from
installedSource ==
    IF consumeATokenFn.kind = "text"
    THEN TextSource(nextInputCodePointIndex, prevInputCodePointIndex)
    ELSE consumeATokenFn

RECURSIVE tokenizeLoop(_, _, _)
\* the while loop of Tokenizer.tokenize
tokenizeLoop(t, inputTokens, s) ==
    Let({ IF Thrown(r.token) THEN Value(<<r.token>>, r.s)
          ELSE IF ~Truthy(r.token) THEN Value(inputTokens, r.s)
          ELSE tokenizeLoop(t, Append(inputTokens, r.token), r.s)
          : r \in {read(t, s)} })

\* Tokenizer.tokenize on a new instance
tokenize(t) == tokenizeLoop(t, <<>>, TextSource(0, -1))

\* the entry of history for a call: the fields its reset(text) found, and "running"
\* until it returns ("none") or raises (the message)
Called(operation, before, message) ==
    [operation |-> operation, before |-> before, raised |-> message]

\* the reset(text) that begins a call of operation(t)
Reset ==
    /\ pc = "idle"
    /\ Len(history) < ReuseMaxCalls
    /\ \E operation \in Operations, t \in ReuseTexts :
          /\ lastCall' = operation
          /\ \E before \in {Fields(text, nextInputCodePointIndex, prevInputCodePointIndex,
                                   LineState(line, lineStartIndex, lineEndIndex))} :
             \E f \in {resetFields(before, t)} :
                /\ history' = Append(history, Called(operation, before, "running"))
                /\ text' = f.text
                /\ nextInputCodePointIndex' = f.next
                /\ prevInputCodePointIndex' = f.prev
                /\ line' = f.lines.line
                /\ lineStartIndex' = f.lines.lineStartIndex
                /\ lineEndIndex' = f.lines.lineEndIndex
    /\ pc' = "reset"
    /\ UNCHANGED <<tokens, spans, stylesheet, raised, atRuleParsers, added, calls,
                   consumeATokenFn, startFn, endFn, frames, active, lastToken, topLevelFlag>>

\* the rest of tokenize(text)
Tokenize ==
    /\ pc = "reset"
    /\ lastCall = "tokenize"
    /\ \E r \in {tokenizeLoop(text, <<>>, installedSource)} :
          /\ nextInputCodePointIndex' = r.s.next
          /\ prevInputCodePointIndex' = r.s.prev
          /\ tokens' = IF ThrownList(r.value) THEN <<>> ELSE r.value
          /\ raised' = IF ThrownList(r.value) THEN r.value[1].message ELSE "none"
          /\ history' = [history EXCEPT ![Len(history)].raised = raised']
    /\ pc' = "idle"
    /\ UNCHANGED <<text, spans, stylesheet, atRuleParsers, added, calls, consumeATokenFn,
                   startFn, endFn, frames, active, lastToken, lastCall, topLevelFlag,
                   lineFields>>

\* the rest of parseAStylesheet(text)
ParseAgain ==
    /\ pc = "reset"
    /\ lastCall = "parseAStylesheet"
    /\ topLevelFlag' = TRUE
    /\ \E r \in {parseAStylesheetOn(text, installedSource)} :
          /\ nextInputCodePointIndex' = r.s.next
          /\ prevInputCodePointIndex' = r.s.prev
          /\ stylesheet' = IF ThrownList(r.value) THEN <<>> ELSE r.value
          /\ raised' = IF ThrownList(r.value) THEN r.value[1].message ELSE "none"
          /\ history' = [history EXCEPT ![Len(history)].raised = raised']
    /\ pc' = "idle"
    /\ UNCHANGED <<text, tokens, spans, atRuleParsers, added, calls, consumeATokenFn,
                   startFn, endFn, frames, active, lastToken, lastCall, lineFields>>

\* the rest of parseACSSStylesheet(text); every with() of a handler has run its finally
\* block by the time the call returns or raises
ParseCssAgain ==
    /\ pc = "reset"
    /\ lastCall = "parseACSSStylesheet"
    /\ topLevelFlag' = TRUE
    /\ \E r \in {parseACSSStylesheetOn(text, atRuleParsers, installedSource)} :
          /\ nextInputCodePointIndex' = r.s.next
          /\ prevInputCodePointIndex' = r.s.prev
          /\ stylesheet' = r.rules
          /\ calls' = r.calls
          /\ raised' = r.raised
          /\ history' = [history EXCEPT ![Len(history)].raised = raised']
    /\ pc' = "idle"
    /\ UNCHANGED <<text, tokens, spans, atRuleParsers, added, consumeATokenFn, startFn,
                   endFn, frames, active, lastToken, lastCall, lineFields>>

\* parser.start() or parser.end() between two calls
QueryPosition ==
    /\ pc = "idle"
    /\ \E query \in {"start", "end"} :
          superPosition(IF query = "start" THEN prevInputCodePointIndex
                        ELSE nextInputCodePointIndex)
    /\ UNCHANGED <<text, nextInputCodePointIndex, prevInputCodePointIndex, tokens, spans, pc,
                   stylesheet, raised, atRuleParsers, added, calls, consumeATokenFn, startFn,
                   endFn, frames, active, lastToken, lastCall, topLevelFlag, history>>

NextReuse == Reset \/ Tokenize \/ ParseAgain \/ ParseCssAgain \/ QueryPosition
SpecReuse == InitReuse /\ [][NextReuse]_vars

\* the result of the last call is the result of the same call on a new instance
sameAsNewInstance(last) ==
    IF last.operation = "tokenize"
    THEN \A r \in {tokenize(text).value} :
            IF ThrownList(r) THEN raised = r[1].message
            ELSE raised = "none" /\ tokens = r
    ELSE IF last.operation = "parseAStylesheet"
    THEN \A r \in {parseAStylesheet(text).value} :
            IF ThrownList(r) THEN raised = r[1].message
            ELSE raised = "none" /\ stylesheet = r
    ELSE \A r \in {parseACSSStylesheet(text, atRuleParsers)} :
            raised = r.raised /\ (r.raised = "none" => stylesheet = r.rules)

\* C16: whatever the instance did before (nothing at all included, when its fields are
\* still undefined), after the reset(text) of a call the cursor is 0, the line
\* bookkeeping is what reset gives a new instance and consumeAToken is the text
\* tokenizer, and the call returns (or raises) what it does on a new instance
C16_ResultDependsOnlyOnTextAndHandlers ==
    /\ pc = "reset" =>
          /\ ~isUndefined(nextInputCodePointIndex)
          /\ ~isUndefined(line) /\ ~isUndefined(lineStartIndex) /\ ~isUndefined(lineEndIndex)
          /\ nextInputCodePointIndex = 0
          /\ LineState(line, lineStartIndex, lineEndIndex) = ResetLineState
          /\ consumeATokenFn = [kind |-> "text"]
          /\ startFn = "super" /\ endFn = "super"
    /\ (pc = "idle" /\ history /= <<>>) => sameAsNewInstance(history[Len(history)])

\* a call that returned rules on an instance whose first call raised, and whose cursor
\* and line bookkeeping an earlier call and a position query had moved
C16_Witness ==
    /\ pc = "idle"
    /\ Len(history) >= 3
    /\ history[1].raised \notin {"none", "running"}
    /\ history[Len(history)].raised = "none"
    /\ history[Len(history)].operation = "parseACSSStylesheet"
    /\ history[Len(history)].before.next > 0
    /\ history[Len(history)].before.lines.line > 1
    /\ stylesheet /= <<>>

-----------------------------------------------------------------------------
(* Functions in the tree of parseAStylesheet *)

FunctionMaxFragments == 5

FunctionFragments == {<<"f", "(">>, <<")">>, <<"(">>, <<"[">>, <<"]">>, <<"a">>, <<"{">>,
                      <<"}">>}

\* @x ...
InitFunction == \E t \in Concatenations(FunctionFragments, FunctionMaxFragments) :
                   reset(<<"@", "x", " ">> \o t) /\ pc = "parse" /\ IdleParser

SpecFunction == InitFunction /\ [][ParseAStylesheet]_vars

RECURSIVE functionsOf(_)
\* every FunctionObject among the component values, at any depth
functionsOf(values) ==
    IF values = <<>> THEN {}
    ELSE Let({ IF v.type = "functionObject" THEN {v} \cup functionsOf(v.components)
               ELSE IF v.type = "simpleBlock" THEN functionsOf(v.values)
               ELSE {}
               : v \in {Head(values)} })
         \cup functionsOf(Tail(values))

\* the FunctionObjects of the tree in stylesheet
treeFunctions ==
    UNION {functionsOf(stylesheet[k].prelude) \cup functionsOf(<<stylesheet[k].block>>)
              : k \in 1..Len(stylesheet)}

\* C17: no FunctionObject of the tree of parseAStylesheet(text) has a ) among its
\* components, and none has a bare ( there either: each ( opened a nested block
C17_NoClosingParenInComponents ==
    (pc = "done" /\ raised = "none") =>
        \A f \in treeFunctions :
            \A i \in 1..Len(f.components) :
                /\ ~isSimple(f.components[i], <<")">>)
                /\ ~isSimple(f.components[i], <<"(">>)

\* a function that holds a ( ) block of its own and was ended by its ): the prelude
\* goes on after it
C17_Witness ==
    /\ pc = "done"
    /\ \E k \in 1..Len(stylesheet) :
       \E j \in 1..(Len(stylesheet[k].prelude) - 1) :
          /\ stylesheet[k].prelude[j].type = "functionObject"
          /\ \E i \in 1..Len(stylesheet[k].prelude[j].components) :
                /\ stylesheet[k].prelude[j].components[i].type = "simpleBlock"
                /\ stylesheet[k].prelude[j].components[i].associatedToken = <<"(">>

-----------------------------------------------------------------------------
(* Unicode-range tokens *)

UnicodeMaxFragments == 4

\* no text of the family holds a number of 2^31 or more
UnicodeFragments == {<<"1">>, <<"1", "b", "C", "2">>, <<"?">>, <<"-">>, <<" ">>}

\* U+ ...
InitUnicode == \E t \in Concatenations(UnicodeFragments, UnicodeMaxFragments) :
                  reset(<<"U", "+">> \o t) /\ pc = "tokenize" /\ IdleParser

SpecUnicode == InitUnicode /\ [][NextTok]_vars

\* the characters of a unicode-range source after its U+
rangeBody(source) == SubSeq(source, 3, Len(source))

hasChar(str, ch) == \E k \in 1..Len(str) : str[k] = ch

\* the part of str before its first ch
before(str, ch) == SubSeq(str, 1, indexOf(str, ch, 0))

\* the part of str after its first ch
after(str, ch) == SubSeq(str, indexOf(str, ch, 0) + 2, Len(str))

\* the start and end that the characters of a unicode-range source stand for
rangeOf(body) ==
    IF hasChar(body, "?")
    THEN [start |-> hexValue(replaceWildcards(body, "0")),
          end |-> hexValue(replaceWildcards(body, "F"))]
    ELSE IF hasChar(body, "-")
    THEN [start |-> hexValue(before(body, "-")), end |-> hexValue(after(body, "-"))]
    ELSE [start |-> hexValue(body), end |-> hexValue(body)]

\* hex digits plus ? are at most 6 characters, and so are the hex digits after a -
rangeWithinSix(body) ==
    IF hasChar(body, "-")
    THEN Len(before(body, "-")) <= 6 /\ Len(after(body, "-")) <= 6
    ELSE Len(body) <= 6

\* C18 as stated: the start and end of every unicode-range token are what the
\* characters of its own source stand for, whatever follows the token in the text
C18_RangeDeterminedByOwnSource ==
    \A k \in 1..Len(tokens) :
        tokens[k].type = "unicodeRange" =>
            \A body \in {rangeBody(tokens[k].source)} :
                /\ rangeWithinSix(body)
                /\ tokens[k].start = rangeOf(body).start
                /\ tokens[k].end = rangeOf(body).end

-----------------------------------------------------------------------------
(* Numeric tokens *)

NumberMaxFragments == 5

NumberFragments == {<<"1">>, <<".">>, <<"e">>, <<"+">>, <<"-">>, <<"%">>, <<"a">>, <<" ">>}

InitNumber == \E t \in Concatenations(NumberFragments, NumberMaxFragments) :
                 reset(t) /\ pc = "tokenize" /\ IdleParser

SpecNumber == InitNumber /\ [][NextTok]_vars

\* digits
isDigits(str) == str /= <<>> /\ \A k \in 1..Len(str) : str[k] \in Digits

\* digits.digits | digits | .digits
isMantissa(str) ==
    \/ isDigits(str)
    \/ \E k \in 1..Len(str) :
          /\ str[k] = "."
          /\ k = 1 \/ isDigits(SubSeq(str, 1, k - 1))
          /\ isDigits(SubSeq(str, k + 1, Len(str)))

\* ([eE][+-]?digits)?
isExponent(str) ==
    \/ str = <<>>
    \/ /\ Len(str) >= 2
       /\ str[1] \in {"e", "E"}
       /\ \/ isDigits(Tail(str))
          \/ str[2] \in {"+", "-"} /\ isDigits(SubSeq(str, 3, Len(str)))

\* [+-]?(digits.digits | digits | .digits)([eE][+-]?digits)?
isNumber(str) ==
    \E i \in 0..1, j \in 1..Len(str) :
        /\ i = 1 => str[1] \in {"+", "-"}
        /\ i < j
        /\ isMantissa(SubSeq(str, i + 1, j))
        /\ isExponent(SubSeq(str, j + 1, Len(str)))

\* the end of the longest number of the grammar that starts at n, or NoMatch
longestNumber(t, n) ==
    Let({ IF ends = {} THEN NoMatch ELSE CHOOSE m \in ends : \A e \in ends : e <= m
          : ends \in {{m \in (n + 1)..Len(t) : isNumber(substring(t, n, m))}} })

\* tokens[k] is of the given type, is the text from n to m and left the cursor at m
isTokenOver(k, type, n, m) ==
    /\ tokens[k].type = type
    /\ tokens[k].source = substring(text, n, m)
    /\ spans[k][2] = m

\* C19: where a number of the grammar starts at the cursor, the token is the longest
\* such number with its %, as a percentage; else with the name that starts after it,
\* as a dimension; else alone, as a number; and the cursor is left at its end
C19_NumericTokenIsLongestMatch ==
    \A k \in 1..Len(tokens) :
        \A n \in {spans[k][1]} :
        \A m \in {longestNumber(text, n)} :
            m /= NoMatch =>
                IF charAt(text, m) = "%" THEN isTokenOver(k, "percentage", n, m + 1)
                ELSE \A name \in {consumeAName(text, m)} :
                        IF Truthy(name.token) THEN isTokenOver(k, "dimension", n, name.next)
                        ELSE isTokenOver(k, "number", n, m)

\* a dimension whose number has an exponent
C19_Witness ==
    /\ pc = "done"
    /\ \E k \in 1..Len(tokens) :
          /\ tokens[k].type = "dimension"
          /\ \A m \in {longestNumber(text, spans[k][1])} :
                /\ m /= NoMatch
                /\ hasChar(substring(text, spans[k][1], m), "e")
                /\ m < spans[k][2]

-----------------------------------------------------------------------------
(* The forms of a url token *)

UrlFormMaxFragments == 5

UrlFormFragments == {<<"a">>, <<"/">>, <<" ">>, <<"\"">>, <<"'">>, <<")">>}

\* url( ...
InitUrlForm == \E t \in Concatenations(UrlFormFragments, UrlFormMaxFragments) :
                  reset(<<"u", "r", "l", "(">> \o t) /\ pc = "tokenize" /\ IdleParser

SpecUrlForm == InitUrlForm /\ [][NextTok]_vars

Quotes == {"\"", "'"}

\* neither a quote, a parenthesis, whitespace nor a backslash
isPlainChar(c) == c \notin Quotes \cup RegexSpace \cup {"(", ")", "\\", EOF}

isPlain(str) == \A k \in 1..Len(str) : isPlainChar(str[k])

\* the X for which body is X), " X )", "X") or 'X')
urlsOf(body) ==
    (IF /\ Len(body) >= 1
        /\ body[Len(body)] = ")"
        /\ isPlain(SubSeq(body, 1, Len(body) - 1))
     THEN {SubSeq(body, 1, Len(body) - 1)} ELSE {})
    \cup
    (IF /\ Len(body) >= 3
        /\ body[Len(body)] = ")"
        /\ body[1] = body[Len(body) - 1]
        /\ body[1] \in Quotes \cup {" "}
        /\ isPlain(SubSeq(body, 2, Len(body) - 2))
     THEN {SubSeq(body, 2, Len(body) - 2)} ELSE {})

\* the index of the first character of body at or after j that is not plain
plainEnd(body, j) ==
    CHOOSE k \in j..Len(body) :
        /\ ~isPlainChar(charAt(body, k))
        /\ \A i \in j..(k - 1) : isPlainChar(charAt(body, i))

\* an unquoted url, read from j after the leading whitespace, that meets a quote, or
\* whitespace with anything but ) after it
isBadFrom(body, j) ==
    /\ j < Len(body)
    /\ charAt(body, j) \notin Quotes
    /\ \A k \in {plainEnd(body, j)} :
          \/ charAt(body, k) \in Quotes
          \/ /\ charAt(body, k) \in RegexSpace
             /\ charAt(body, runEnd(body, k, Len(body), RegexSpace)) /= ")"

isBadUnquotedUrl(body) == isBadFrom(body, runEnd(body, 0, Len(body), RegexSpace))

\* C20: url(X), url( X ), url("X") and url('X') are each one url token with url = X
\* and the whole text as source; for a bad unquoted url consumeAToken returns no token
C20_UrlFormsGiveOneUrlToken ==
    pc = "done" =>
        \A body \in {SubSeq(text, 5, Len(text))} :
            /\ \A X \in urlsOf(body) :
                  tokens = <<[type |-> "url", source |-> text, url |-> X]>>
            /\ isBadUnquotedUrl(body) => (tokens = <<>> /\ lastToken = Null)

\* a quoted form with a non-empty X has been tokenized
C20_Witness ==
    /\ pc = "done"
    /\ Len(tokens) = 1
    /\ tokens[1].type = "url"
    /\ Len(tokens[1].url) >= 2
    /\ text[5] \in Quotes
    /\ urlsOf(SubSeq(text, 5, Len(text))) = {tokens[1].url}

-----------------------------------------------------------------------------
(* Hex escapes in names and strings *)

EscapeMaxDigits == 6

EscapeDigits == {<<"0">>, <<"1">>, <<"4">>, <<"F">>}

\* \h and "\h", each with and without a space after the digits
InitEscape ==
    \E h \in Concatenations(EscapeDigits, EscapeMaxDigits) \ {<<>>} :
    \E space \in {<<>>, <<" ">>} :
    \E quote \in {<<>>, <<"\"">>} :
        reset(quote \o <<"\\">> \o h \o space \o quote) /\ pc = "tokenize" /\ IdleParser

SpecEscape == InitEscape /\ [][NextTok]_vars

\* the character whose Unicode scalar value is h, written as the model writes the
\* characters outside ASCII
charOfScalar(h) == IF h < 65536 THEN fromCharCode(h) ELSE "U+" \o ToString(h)

\* the decoded text of a name or string token
decoded(tok) == IF tok.type = "string" THEN tok.text ELSE tok.name

\* C21 as stated: \h, with its optional space, is one token that holds exactly the
\* character with scalar value h, for every h from 1 to 0x10FFFF, in a name and in
\* a string
C21_HexEscapeIsScalarValue ==
    pc = "done" =>
        \A h \in {hexValue(SelectSeq(text, isHex))} :
            h \in 1..1114111 =>
                /\ Len(tokens) = 1
                /\ tokens[1].type \in {"ident", "string"}
                /\ tokens[1].source = text
                /\ decoded(tokens[1]) = <<charOfScalar(h)>>

-----------------------------------------------------------------------------
(* start() and end() between consumeAToken calls on the text tokenizer *)

LinesMaxFragments == 4

LinesFragments == {<<"a">>, <<"\n">>, <<" ">>, <<"{">>, <<"'", "\\", "\n", "'">>}

InitLines == \E t \in Concatenations(LinesFragments, LinesMaxFragments) :
                reset(t) /\ pc = "run" /\ IdleParser

NextLines == ConsumeAToken \/ CallPosition
SpecLines == InitLines /\ [][NextLines]_vars

\* the indices below index at which t has a newline
newlinesBefore(t, index) == {i \in 0..(index - 1) : charAt(t, i) = "\n"}

\* line = 1 + the number of newlines before index, column = the distance from the last
\* newline before index
positionOf(t, index) ==
    \A newlines \in {newlinesBefore(t, index)} :
        /\ line = 1 + Cardinality(newlines)
        /\ index - lineStartIndex + 1 =
               index - (IF newlines = {} THEN -1
                        ELSE CHOOSE i \in newlines : \A j \in newlines : j <= i)
        /\ index - lineStartIndex + 1 >= 1

\* C22 as stated: after a token has been consumed, start() returns the line and column
\* of its first character and end() those of the cursor after it, in whatever order
\* the two are called (the call returns line and index - lineStartIndex + 1)
C22_PositionsAreLineAndColumn ==
    Truthy(lastToken) =>
        /\ lastCall = "start" => positionOf(text, prevInputCodePointIndex)
        /\ lastCall = "end" => positionOf(text, nextInputCodePointIndex)

-----------------------------------------------------------------------------
(* Qualified rules in the tree of parseAStylesheet *)

QualifiedMaxFragments == 6

QualifiedFragments == {<<"a">>, <<" ">>, <<"{">>, <<"}">>, <<"(">>, <<")">>}

InitQualified == \E t \in Concatenations(QualifiedFragments, QualifiedMaxFragments) :
                    reset(t) /\ pc = "parse" /\ IdleParser

SpecQualified == InitQualified /\ [][ParseAStylesheet]_vars

RECURSIVE topLevelBlocks(_, _, _)
\* how many { of str, from the 1-based index k, open a block while no block is open;
\* closers holds the closing characters of the open blocks, innermost first
topLevelBlocks(str, k, closers) ==
    IF k > Len(str) THEN 0
    ELSE IF str[k] \in {"{", "("}
    THEN (IF closers = <<>> /\ str[k] = "{" THEN 1 ELSE 0)
         + topLevelBlocks(str, k + 1, <<IF str[k] = "{" THEN "}" ELSE ")">> \o closers)
    ELSE IF closers /= <<>> /\ str[k] = Head(closers)
    THEN topLevelBlocks(str, k + 1, Tail(closers))
    ELSE topLevelBlocks(str, k + 1, closers)

\* str without whitespace and without closing characters
openersAndNames(str) == SelectSeq(str, LAMBDA c : c \notin {" ", "}", ")"})

isPrefix(p, str) == Len(p) <= Len(str) /\ SubSeq(str, 1, Len(p)) = p

\* str with every run of spaces replaced by one space, as a whitespace token reads
singleSpaces(str) ==
    [k \in 1..Len(str) |-> IF str[k] = " " /\ k > 1 /\ str[k - 1] = " " THEN "" ELSE str[k]]

joinChars(str) == SelectSeq(str, LAMBDA c : c /= "")

\* C23: the tree holds one qualified rule per { that opens a block at rule level, each
\* with a { block, no { block in its prelude and, prelude first, the characters that
\* the text has there; a rule that the end of the text cuts short is not in the tree
C23_QualifiedRulesHaveBlockAndPrelude ==
    (pc = "done" /\ raised = "none") =>
        /\ Len(stylesheet) = topLevelBlocks(text, 1, <<>>)
        /\ \A k \in 1..Len(stylesheet) :
              /\ stylesheet[k].type = "qualified-rule"
              /\ isCurlyBlock(stylesheet[k].block)
              /\ \A i \in 1..Len(stylesheet[k].prelude) :
                    /\ ~isCurlyBlock(stylesheet[k].prelude[i])
                    /\ ~isSimple(stylesheet[k].prelude[i], <<"{">>)
        /\ isPrefix(openersAndNames(stringify(stylesheet)), openersAndNames(text))
        /\ stylesheet /= <<>> =>
              isPrefix(render(stylesheet[1].prelude), joinChars(singleSpaces(trimStart(text))))

\* a rule whose seed token ( became a block of its prelude, followed by a rule that
\* the end of the text cuts short
C23_Witness ==
    /\ pc = "done"
    /\ Len(stylesheet) = 1
    /\ Len(stylesheet[1].prelude) >= 2
    /\ stylesheet[1].prelude[1].type = "simpleBlock"
    /\ Len(openersAndNames(stringify(stylesheet))) < Len(openersAndNames(text))

-----------------------------------------------------------------------------
(* At-rules in the tree of parseAStylesheet *)

AtRuleMaxFragments == 5

AtRuleFragments == {<<"a">>, <<" ">>, <<"{">>, <<"}">>, <<";">>, <<"(">>, <<")">>}

\* @x followed by the fragments
InitAtRule == \E t \in Concatenations(AtRuleFragments, AtRuleMaxFragments) :
                 reset(<<"@", "x">> \o t) /\ pc = "parse" /\ IdleParser

SpecAtRule == InitAtRule /\ [][ParseAStylesheet]_vars

RECURSIVE preludeEnd(_, _, _)
\* the 1-based index of the first ; or { of str, from k on, that is in no block, and
\* Len(str) + 1 when there is none; closers as in topLevelBlocks
preludeEnd(str, k, closers) ==
    IF k > Len(str) THEN k
    ELSE IF closers = <<>> /\ str[k] \in {";", "{"} THEN k
    ELSE IF str[k] \in {"{", "("}
    THEN preludeEnd(str, k + 1, <<IF str[k] = "{" THEN "}" ELSE ")">> \o closers)
    ELSE IF closers /= <<>> /\ str[k] = Head(closers)
    THEN preludeEnd(str, k + 1, Tail(closers))
    ELSE preludeEnd(str, k + 1, closers)

\* the 1-based index of the first character after the name of the at-keyword that
\* starts str
atKeywordEnd(str) == runEnd(str, 1, Len(str), {"a", "x"}) + 1

withoutClosers(str) == SelectSeq(str, LAMBDA c : c \notin {"}", ")"})

\* C24: the first rule of the tree of a text that starts with an at-keyword is an
\* at-rule with the name of the keyword; its prelude spells the text up to the first
\* ; or { outside blocks; it has a { block when { came first and none otherwise; the
\* rules after it are those of the text after the ;
C24_AtRuleHasPreludeAndOptionalBlock ==
    (pc = "done" /\ raised = "none") =>
        \A from \in {atKeywordEnd(text)} : \A to \in {preludeEnd(text, from, <<>>)} :
            /\ stylesheet /= <<>>
            /\ stylesheet[1].type = "at-rule"
            /\ stylesheet[1].name = SubSeq(text, 2, from - 1)
            /\ withoutClosers(render(stylesheet[1].prelude))
                   = withoutClosers(joinChars(singleSpaces(SubSeq(text, from, to - 1))))
            /\ (to <= Len(text) /\ text[to] = "{") =>
                   /\ isCurlyBlock(stylesheet[1].block)
                   /\ isPrefix(openersAndNames(toString(stylesheet[1].block)),
                               openersAndNames(SubSeq(text, to, Len(text))))
            /\ (to <= Len(text) /\ text[to] = ";") =>
                   /\ stylesheet[1].block = Undefined
                   /\ Tail(stylesheet)
                          = parseAStylesheet(SubSeq(text, to + 1, Len(text))).value
            /\ to > Len(text) => (stylesheet[1].block = Undefined /\ Len(stylesheet) = 1)

\* an at-rule with a prelude that the ; ends, followed by another rule
C24_Witness ==
    /\ pc = "done"
    /\ Len(stylesheet) = 2
    /\ stylesheet[1].type = "at-rule"
    /\ stylesheet[1].block = Undefined
    /\ Len(stylesheet[1].prelude) >= 2
    /\ \E k \in 1..Len(text) : text[k] = ";"

-----------------------------------------------------------------------------
(* <!-- and --> between the rules of a stylesheet and of a @keyframes block *)

CdMaxFragments == 4

CdFragments == {<<"<", "!", "-", "-">>, <<"-", "-", ">">>, <<"a">>, <<" ">>, <<"{", "}">>}

\* <!-- or --> or nothing, then @keyframes a{ ... }
InitCd ==
    \E outer \in {<<>>, <<"<", "!", "-", "-">>, <<"-", "-", ">">>} :
        \E t \in Concatenations(CdFragments, CdMaxFragments) :
            CssParserFor(outer
                         \o <<"@", "k", "e", "y", "f", "r", "a", "m", "e", "s", " ", "a", "{">>
                         \o t \o <<"}">>)

SpecCd == InitCd /\ [][ParseACSSStylesheet]_vars

\* str from its first @ on
fromAtKeyword(str) ==
    SubSeq(str, CHOOSE k \in 1..Len(str) : str[k] = "@" /\ \A j \in 1..(k - 1) : str[j] /= "@",
           Len(str))

\* C25: <!-- and --> before the at-rule change nothing in the result, and the keyframes
\* are those of the rule list of the block read as a list that is not top-level, where
\* <!-- and --> start a qualified rule
C25_CdoCdcStartRuleBelowTopLevel ==
    (pc = "done" /\ raised = "none") =>
        /\ stylesheet = parseACSSStylesheet(fromAtKeyword(text), atRuleParsers).rules
        /\ \A parsed \in {parseAStylesheet(text)} :
              stylesheet[1]
                  = keyframesParser(text, parsed.value[1], FALSE, parsed.s).value

-----------------------------------------------------------------------------
(* The declarations of a style rule, segment by segment *)

SegmentMaxFragments == 5

SegmentFragments == {<<"a">>, <<":">>, <<";">>, <<" ">>, <<"1">>, <<"@", "x">>,
                     <<"{", ";", "}">>}

\* p{ ...
InitSegment == \E t \in Concatenations(SegmentFragments, SegmentMaxFragments) :
                  CssParserFor(<<"p", "{">> \o t)

SpecSegment == InitSegment /\ [][ParseACSSStylesheet]_vars

RECURSIVE segmentEnd(_, _, _)
\* the 1-based index of the first ; of str, from k on, that is in no block, and
\* Len(str) + 1 when there is none; closers as in topLevelBlocks
segmentEnd(str, k, closers) ==
    IF k > Len(str) THEN k
    ELSE IF closers = <<>> /\ str[k] = ";" THEN k
    ELSE IF str[k] \in {"{", "("}
    THEN segmentEnd(str, k + 1, <<IF str[k] = "{" THEN "}" ELSE ")">> \o closers)
    ELSE IF closers /= <<>> /\ str[k] = Head(closers)
    THEN segmentEnd(str, k + 1, Tail(closers))
    ELSE segmentEnd(str, k + 1, closers)

RECURSIVE blockEnd(_, _, _)
\* the 1-based index of the character that closes the block that str[k - 1] opened,
\* and Len(str) + 1 when there is none; closers as in topLevelBlocks, never empty
blockEnd(str, k, closers) ==
    IF k > Len(str) THEN k
    ELSE IF str[k] \in {"{", "("}
    THEN blockEnd(str, k + 1, <<IF str[k] = "{" THEN "}" ELSE ")">> \o closers)
    ELSE IF str[k] = Head(closers)
    THEN (IF Len(closers) = 1 THEN k ELSE blockEnd(str, k + 1, Tail(closers)))
    ELSE blockEnd(str, k + 1, closers)

\* the declaration of the segment seg, which starts with an ident: none unless a colon
\* follows the ident, after whitespace
segmentDeclaration(seg) ==
    \* the family's idents are made of a and 1
    Let({ Let({ IF tail /= <<>> /\ tail[1] = ":"
                THEN <<[property |-> SubSeq(seg, 1, nameEnd),
                        value |-> trim(joinChars(singleSpaces(Tail(tail))))]>>
                ELSE <<>>
                : tail \in {trimStart(SubSeq(seg, nameEnd + 1, Len(seg)))} })
          : nameEnd \in {runEnd(seg, 0, Len(seg), {"a", "1"})} })

RECURSIVE segmentDeclarations(_)
\* the declarations that the text str of a block spells, segment by segment
segmentDeclarations(str) ==
    Let({ IF rest = <<>> THEN <<>>
          ELSE IF rest[1] = ";" THEN segmentDeclarations(Tail(rest))
          ELSE IF rest[1] = "@"
          THEN Let({ IF to > Len(rest) THEN <<>>
                     ELSE IF rest[to] = ";"
                     THEN segmentDeclarations(SubSeq(rest, to + 1, Len(rest)))
                     ELSE segmentDeclarations(SubSeq(rest, blockEnd(rest, to + 1, <<"}">>) + 1,
                                                     Len(rest)))
                     : to \in {preludeEnd(rest, 2, <<>>)} })
          ELSE Let({ (IF rest[1] = "a" THEN segmentDeclaration(SubSeq(rest, 1, to - 1))
                      ELSE <<>>)
                         \o segmentDeclarations(SubSeq(rest, to + 1, Len(rest)))
                     : to \in {segmentEnd(rest, 1, <<>>)} })
          : rest \in {trimStart(str)} })

propertyAndValue(declaration) ==
    [property |-> declaration.property, value |-> declaration.value]

\* C26: the declarations of the style rule are, in order, those of the segments of the
\* block's text that start with an ident followed, after whitespace, by a colon
C26_OneDeclarationPerWellFormedSegment ==
    (pc = "done" /\ raised = "none") =>
        /\ Len(stylesheet) = 1
        /\ \A declarations \in {SelectSeq(stylesheet[1].declarations, isDeclaration)} :
              [k \in 1..Len(declarations) |-> propertyAndValue(declarations[k])]
                  = segmentDeclarations(SubSeq(text, 3, Len(text)))

\* a declaration with a value after a segment that starts with a number
C26_Witness ==
    /\ pc = "done"
    /\ raised = "none"
    /\ Len(text) >= 3
    /\ text[3] = "1"
    /\ \E k \in 1..Len(stylesheet[1].declarations) :
          /\ isDeclaration(stylesheet[1].declarations[k])
          /\ stylesheet[1].declarations[k].value /= <<>>

-----------------------------------------------------------------------------
(* Quoted strings *)

StringMaxFragments == 5

StringFragments == {<<"'">>, <<"\"">>, <<"p">>, <<"\n">>, <<"\\">>}

\* a quote, then the fragments
InitString == \E quote \in Quotes : \E t \in Concatenations(StringFragments, StringMaxFragments) :
                 reset(<<quote>> \o t) /\ pc = "tokenize" /\ IdleParser

SpecString == InitString /\ [][NextTok]_vars

RECURSIVE stringEnd(_, _, _)
\* how the string that the quote before the 1-based index k of str opened ends, and
\* where: closed by its quote, ended by the end of the text, or bad at a newline
stringEnd(str, k, quote) ==
    IF k > Len(str) THEN [kind |-> "end of input", at |-> k]
    ELSE IF str[k] = quote THEN [kind |-> "closed", at |-> k]
    ELSE IF str[k] = "\n" THEN [kind |-> "bad", at |-> k]
    ELSE IF str[k] = "\\" /\ k < Len(str) THEN stringEnd(str, k + 2, quote)
    ELSE stringEnd(str, k + 1, quote)

RECURSIVE decodedContent(_)
\* content with every escaped character in place of its escape, and without escaped
\* newlines
decodedContent(content) ==
    IF content = <<>> THEN <<>>
    ELSE IF content[1] /= "\\" THEN <<content[1]>> \o decodedContent(Tail(content))
    ELSE IF Len(content) = 1 THEN <<>>
    ELSE IF content[2] = "\n" THEN decodedContent(Tail(Tail(content)))
    ELSE <<content[2]>> \o decodedContent(Tail(Tail(content)))

\* C27: the first consumeAToken on a text that starts with a quote returns a String
\* token with the decoded content when the quote or the end of the text ends the
\* string, and no token when an unescaped newline comes first
C27_StringOrNoTokenAtNewline ==
    \A e \in {stringEnd(text, 2, text[1])} :
        /\ (e.kind /= "bad" /\ pc = "done") => tokens /= <<>>
        /\ (e.kind /= "bad" /\ tokens /= <<>>) =>
              /\ tokens[1].type = "string"
              /\ tokens[1].source = SubSeq(text, 1, Min(e.at, Len(text)))
              /\ tokens[1].text = decodedContent(SubSeq(text, 2, e.at - 1))
        /\ e.kind = "bad" => tokens = <<>>

-----------------------------------------------------------------------------
(* with() around actions that only consume tokens *)

SubStreamTexts == WithTexts \cup {<<"a", "\n", "b", "\n">>}

InitSubStream == \E t \in SubStreamTexts : reset(t) /\ pc = "run" /\ IdleParser

\* the text is read and its positions are asked for outside with() only
NextSubStream ==
    \/ With
    \/ ConsumeAToken
    \/ Return
    \/ (frames = <<>> /\ CallPosition)

SpecSubStream == InitSubStream /\ [][NextSubStream]_vars

\* C28: when a with() whose action only consumed tokens returns, the cursor, the start
\* of the previous token and the line bookkeeping are those of the moment of the call,
\* and the array it was given holds what it held
C28_WithLeavesTextTokenizerUnchanged ==
    [][Return =>
          /\ <<nextInputCodePointIndex', prevInputCodePointIndex', line', lineStartIndex',
               lineEndIndex'>> = active[Len(active)].before
          /\ consumeATokenFn.inputTokens = active[Len(active)].inputTokens]_vars

\* a with() has returned after its action read both of its tokens, on a text whose
\* second line the cursor and the line bookkeeping had reached
C28_Witness ==
    /\ lastCall = "return"
    /\ frames = <<>>
    /\ lastToken = Simple(<<":">>)
    /\ line = 2
    /\ nextInputCodePointIndex >= 2

-----------------------------------------------------------------------------
(* tokenize, parseAStylesheet and parseACSSStylesheet run to their end *)

TerminateMaxFragments == 3

TerminateFragments == {<<"a">>, <<" ">>, <<"a", "{">>, <<"}">>, <<";">>, <<"a", ":">>, <<"(">>,
                       <<"/", "*", "*", "/">>, <<"'", "a", "'">>, <<"\\">>,
                       <<"u", "r", "l", "(">>,
                       <<"@", "k", "e", "y", "f", "r", "a", "m", "e", "s", " ", "a", "{">>}

\* a CSSParser with the exported handlers, about to run one of the three operations
InitTerminate ==
    \E t \in Concatenations(TerminateFragments, TerminateMaxFragments) :
        \E operation \in {"tokenize", "parse", "setup"} :
            /\ reset(t)
            /\ pc = operation
            /\ stylesheet = <<>>
            /\ atRuleParsers = addAtRuleParser(addAtRuleParser(<<>>, ExportedImportParser),
                                               ExportedKeyframesParser)
            /\ added = <<ExportedImportParser, ExportedKeyframesParser>>
            /\ calls = <<>>
            /\ consumeATokenFn = [kind |-> "text"]
            /\ startFn = "super"
            /\ endFn = "super"
            /\ lastCall = "none"
            /\ frames = <<>>
            /\ active = <<>>
            /\ topLevelFlag = FALSE
            /\ history = <<>>

NextTerminate ==
    \/ TokenizePush
    \/ TokenizeEnd
    \/ TokenizeThrow
    \/ ParseAStylesheet
    \/ ParseACSSStylesheet

\* a call that has started goes on: the loop of tokenize takes its next iteration
SpecTerminate == InitTerminate /\ [][NextTerminate]_vars /\ WF_vars(NextTerminate)

\* C29: every token that consumeAToken returned moved the cursor forward, and the
\* operation that is running comes to its end
C29_OperationsTerminate ==
    /\ [](\A k \in 1..Len(spans) : spans[k][2] > spans[k][1])
    /\ <>(pc = "done")

\* tokenize has returned after a comment at the end of the text, which leaves the
\* cursor one past the end
C29_Witness ==
    /\ pc = "done"
    /\ Len(tokens) >= 2
    /\ nextInputCodePointIndex = Len(text) + 1

-----------------------------------------------------------------------------
(* Openers and function tokens in the tree of parseAStylesheet *)

\* a token that consumeAComponentValue replaces by a block or a function
isBare(tok) == isOpener(tok) \/ tok.type = "functionToken"

noneBare(values) == \A i \in 1..Len(values) : ~isBare(values[i])

\* C30: no prelude, no values list of a block and no components list of a function of
\* the tree holds a (, [ or { token or a function token, at any depth, and the block of
\* a rule that has one is a simple block
C30_NoBareOpenerInTree ==
    (pc = "done" /\ raised = "none") =>
        /\ \A k \in 1..Len(stylesheet) :
              /\ noneBare(stylesheet[k].prelude)
              /\ stylesheet[k].block = Undefined \/ stylesheet[k].block.type = "simpleBlock"
        /\ \A block \in treeBlocks : noneBare(block.values)
        /\ \A f \in treeFunctions : noneBare(f.components)

\* a qualified rule, after the at-rule, whose seed token was an opener and is a block
\* of its prelude
C30_Witness ==
    /\ pc = "done"
    /\ raised = "none"
    /\ Len(stylesheet) = 2
    /\ stylesheet[2].type = "qualified-rule"
    /\ stylesheet[2].prelude /= <<>>
    /\ stylesheet[2].prelude[1].type = "simpleBlock"
    /\ treeBlocks /= {}

====
